---- MODULE Spec2Model ----
(***************************************************************************)
(* Flavour-Remix backend: ingredient matcher, pairing-candidate extractor, *)
(* similarity scorer, replacement ranker, the recipe-replacement handlers  *)
(* and the two upstream clients.                                           *)
(*                                                                         *)
(* Text is modelled as a sequence of one-character strings, so that        *)
(* strip / lower / split / regex substitution are computed as the Python   *)
(* code computes them.  Floating point scores are kept as exact fractions  *)
(* <<numerator, denominator>>; values rounded to 4 decimals are integers   *)
(* in units of 1/10000 (1.0 = 10000, 0.9 = 9000).                          *)
(***************************************************************************)
EXTENDS Integers, Sequences, FiniteSets, TLC

\* ------------------------------------------------------------------------
\* Characters and Python string primitives
\* ------------------------------------------------------------------------

\* The characters used by the model, in ASCII order (str comparison order).
CharTable ==
  << " ", "+", ",", "-", ".", "/", "0", "1", "2", "3", "4", "5", "6", "7", "8", "9", ":",
     ";", "A", "B", "C", "D", "E", "F", "G", "H", "I", "J", "K", "L", "M", "N",
     "O", "P", "Q", "R", "S", "T", "U", "V", "W", "X", "Y", "Z", "_",
     "a", "b", "c", "d", "e", "f", "g", "h", "i", "j", "k", "l", "m", "n",
     "o", "p", "q", "r", "s", "t", "u", "v", "w", "x", "y", "z", "|" >>

UpperLetters ==
  << "A", "B", "C", "D", "E", "F", "G", "H", "I", "J", "K", "L", "M", "N",
     "O", "P", "Q", "R", "S", "T", "U", "V", "W", "X", "Y", "Z" >>

LowerLetters ==
  << "a", "b", "c", "d", "e", "f", "g", "h", "i", "j", "k", "l", "m", "n",
     "o", "p", "q", "r", "s", "t", "u", "v", "w", "x", "y", "z" >>

Digits == { "0", "1", "2", "3", "4", "5", "6", "7", "8", "9" }

SeqRange(s) == { s[i] : i \in 1..Len(s) }

SetMin(S) == CHOOSE x \in S : \A y \in S : x <= y

SetMax(S) == CHOOSE x \in S : \A y \in S : x >= y

UpperSet == SeqRange(UpperLetters)

LowerSet == SeqRange(LowerLetters)

IndexOf(s, c) == CHOOSE i \in 1..Len(s) : s[i] = c

\* ord(c), restricted to the characters of CharTable (order preserving).
CharOrd(c) == IndexOf(CharTable, c)

\* str.lower() on one character.
LowerChar(c) == IF c \in UpperSet
                THEN LowerLetters[IndexOf(UpperLetters, c)] ELSE c

\* The regex class [a-z0-9].
IsLowerAlnum(c) == c \in LowerSet \/ c \in Digits

\* str.isspace() on one character (the model's only whitespace is " ").
IsSpace(c) == c = " "

\* The elements of s at the positions in K, in increasing position order.
PickIndices(s, K) ==
  [ k \in 1..Cardinality(K) |->
      s[CHOOSE i \in K : Cardinality({ j \in K : j <= i }) = k] ]

\* str.lower()
StrLower(s) == [ i \in 1..Len(s) |-> LowerChar(s[i]) ]

\* str.strip()
StrStrip(s) ==
  LET K == { i \in 1..Len(s) : ~IsSpace(s[i]) }
  IN  IF K = {} THEN << >> ELSE SubSeq(s, SetMin(K), SetMax(K))

\* x in y  (Python substring test; the empty string is in every string).
IsSubstr(x, y) ==
  \E i \in 0..(Len(y) - Len(x)) : SubSeq(y, i + 1, i + Len(x)) = x

\* str.split() with no argument: the maximal runs of non-whitespace.
StrSplitWs(s) ==
  LET starts == { i \in 1..Len(s) :
                    ~IsSpace(s[i]) /\ (i = 1 \/ IsSpace(s[i - 1])) }
      endOf(i) == SetMin({ j \in i..Len(s) :
                             j = Len(s) \/ IsSpace(s[j + 1]) })
  IN  [ k \in 1..Cardinality(starts) |->
          LET i == CHOOSE x \in starts :
                     Cardinality({ y \in starts : y <= x }) = k
          IN  SubSeq(s, i, endOf(i)) ]

\* sep.join(parts)
RECURSIVE StrJoin(_, _)
StrJoin(parts, sep) ==
  IF Len(parts) = 0 THEN << >>
  ELSE IF Len(parts) = 1 THEN parts[1]
  ELSE parts[1] \o sep \o StrJoin(Tail(parts), sep)

\* re.sub(r"[^a-z0-9]+", " ", s): every maximal run of characters outside
\* [a-z0-9] becomes one space.
ReSubNonAlnum(s) ==
  LET K == { i \in 1..Len(s) :
               IsLowerAlnum(s[i]) \/ i = 1 \/ IsLowerAlnum(s[i - 1]) }
      t == [ i \in 1..Len(s) |-> IF IsLowerAlnum(s[i]) THEN s[i] ELSE " " ]
  IN  PickIndices(t, K)

\* Lexicographic str comparison a < b.
StrLess(a, b) ==
  \E k \in 1..Len(b) :
     /\ \A i \in 1..(k - 1) : i <= Len(a) /\ a[i] = b[i]
     /\ \/ k = Len(a) + 1
        \/ k <= Len(a) /\ CharOrd(a[k]) < CharOrd(b[k])

\* An optional text (str | None): None, or a text.
NoText == [ set |-> FALSE, v |-> << >> ]

SomeText(v) == [ set |-> TRUE, v |-> v ]

\* ------------------------------------------------------------------------
\* Fractions and rounding
\* ------------------------------------------------------------------------

\* x > y for fractions <<n, d>> with d > 0.
FracGT(x, y) == x[1] * y[2] > y[1] * x[2]

\* max(x, y) as Python evaluates it: x unless y > x.
FracMax(x, y) == IF FracGT(y, x) THEN y ELSE x

\* 2^k mod m
RECURSIVE PowMod2(_, _)
PowMod2(k, m) == IF k = 0 THEN 1 % m ELSE (2 * PowMod2(k - 1, m)) % m

\* floor(log2(n / d)) for n, d > 0.
RECURSIVE FloorLog2(_, _)
FloorLog2(n, d) ==
  IF n < d THEN FloorLog2(2 * n, d) - 1
  ELSE IF n >= 2 * d THEN FloorLog2(n, 2 * d) + 1
  ELSE 0

\* The double n / d compared with the fraction n/d it stands for: 0 when the
\* division is exact in binary, 1 when the double is the greater, -1 when
\* it is the smaller.  The double has a 53-bit significand, n/d * 2^s with
\* s = 52 - floor(log2(n/d)) rounded to the nearest integer.
DoubleSide(n, d) ==
  LET s   == 52 - FloorLog2(n, d)
      rem == ((n % d) * PowMod2(s, d)) % d
  IN  IF rem = 0 THEN 0 ELSE IF 2 * rem > d THEN 1 ELSE -1

\* round(n / d, 4) in units of 1/10000: the double n / d rounded to four
\* places, a tie going to the even neighbour.  The double is a tie only
\* when the division is exact; when the fraction is a decimal tie and the
\* division is not exact, the side the double lies on decides.
Round4(x) ==
  LET q == (x[1] * 10000) \div x[2]
      r == (x[1] * 10000) % x[2]
  IN  IF 2 * r < x[2] THEN q
      ELSE IF 2 * r > x[2] THEN q + 1
      ELSE IF DoubleSide(x[1], x[2]) > 0 THEN q + 1
      ELSE IF DoubleSide(x[1], x[2]) < 0 THEN q
      ELSE IF q % 2 = 0 THEN q ELSE q + 1
\* ------------------------------------------------------------------------
\* difflib.SequenceMatcher(None, a, b).ratio()  (isjunk is None, autojunk
\* is on).  Windows are 1-based and inclusive.
\* ------------------------------------------------------------------------

\* Shortest b for which __chain_b looks for popular characters.
AUTOJUNK_MIN_LEN == 200

\* __chain_b: the characters of b left out of b2j, those occurring more
\* than len(b) // 100 + 1 times in a b of 200 characters or more.
Popular(b) ==
  IF Len(b) < AUTOJUNK_MIN_LEN THEN {}
  ELSE { c \in SeqRange(b) :
           Cardinality({ j \in 1..Len(b) : b[j] = c }) > Len(b) \div 100 + 1 }

\* j2len: length of the common run of indexed characters that ends at a[i]
\* and b[j] inside the window.
RunLen(a, b, i, j, alo, blo, popular) ==
  SetMax({ k \in 0..(IF i - alo < j - blo THEN i - alo + 1 ELSE j - blo + 1) :
             \A d \in 0..(k - 1) : a[i - d] = b[j - d] /\ b[j - d] \notin popular })

\* The first extension loop: the match grows to the left while the
\* characters before it agree.
RECURSIVE ExtendLeft(_, _, _, _, _)
ExtendLeft(a, b, m, alo, blo) ==
  IF m[1] > alo /\ m[2] > blo /\ a[m[1] - 1] = b[m[2] - 1]
  THEN ExtendLeft(a, b, << m[1] - 1, m[2] - 1, m[3] + 1 >>, alo, blo)
  ELSE m

\* The second extension loop: the match grows to the right likewise.
RECURSIVE ExtendRight(_, _, _, _, _)
ExtendRight(a, b, m, ahi, bhi) ==
  IF m[1] + m[3] <= ahi /\ m[2] + m[3] <= bhi /\ a[m[1] + m[3]] = b[m[2] + m[3]]
  THEN ExtendRight(a, b, << m[1], m[2], m[3] + 1 >>, ahi, bhi)
  ELSE m

\* find_longest_match: <<i, j, k>> with a[i..i+k-1] = b[j..j+k-1].  The run
\* of indexed characters is the longest, then the one with i minimal, then
\* j minimal, <<alo, blo, 0>> when there is none; it is then extended on
\* both sides over any agreeing characters.
FindLongestMatch(a, b, alo, ahi, blo, bhi) ==
  LET popular == Popular(b)
      P    == (alo..ahi) \X (blo..bhi)
      best == SetMax({ RunLen(a, b, p[1], p[2], alo, blo, popular) : p \in P }
                     \cup {0})
      core == IF best = 0 THEN << alo, blo, 0 >>
              ELSE LET ends == { p \in P :
                                   RunLen(a, b, p[1], p[2], alo, blo, popular) = best }
                       i    == SetMin({ p[1] : p \in ends })
                       j    == SetMin({ p[2] : p \in { q \in ends : q[1] = i } })
                   IN  << i - best + 1, j - best + 1, best >>
  IN  ExtendRight(a, b, ExtendLeft(a, b, core, alo, blo), ahi, bhi)

\* get_matching_blocks: total size of the blocks found by splitting
\* recursively around the longest match.
RECURSIVE MatchingChars(_, _, _, _, _, _)
MatchingChars(a, b, alo, ahi, blo, bhi) ==
  IF alo > ahi \/ blo > bhi THEN 0
  ELSE LET m == FindLongestMatch(a, b, alo, ahi, blo, bhi)
       IN  IF m[3] = 0 THEN 0
           ELSE m[3]
                + MatchingChars(a, b, alo, m[1] - 1, blo, m[2] - 1)
                + MatchingChars(a, b, m[1] + m[3], ahi, m[2] + m[3], bhi)

\* ratio() = 2.0 * M / T, and 1.0 when both strings are empty.
SequenceRatio(a, b) ==
  IF Len(a) + Len(b) = 0 THEN << 1, 1 >>
  ELSE << 2 * MatchingChars(a, b, 1, Len(a), 1, Len(b)), Len(a) + Len(b) >>

\* ------------------------------------------------------------------------
\* main.py: the ingredient name matcher
\* ------------------------------------------------------------------------

\* Confidence of the exact tier, 1.0.
CONF_EXACT == 10000

\* Confidence of the substring tier, 0.9.
CONF_SUBSTRING == 9000

\* Mutant: the blended score is accepted from 0.5 on.
MATCH_THRESHOLD_Half == 72 - 22

\* The acceptance threshold 0.72 of the blended score, in hundredths.
MATCH_THRESHOLD == 72

NormalizeIngredientName(value) ==
  StrJoin(StrSplitWs(ReSubNonAlnum(StrLower(StrStrip(value)))), << " " >>)

\* The (None, 0.0) result.
NoMatch == [ isNone |-> TRUE, name |-> << >>, conf |-> 0 ]

Matched(name, conf) == [ isNone |-> FALSE, name |-> name, conf |-> conf ]

\* First loop: the first name whose normal form equals target_norm.
ExactTier(target_norm, recipe_ingredients) ==
  LET hits == { i \in 1..Len(recipe_ingredients) :
                  NormalizeIngredientName(recipe_ingredients[i]) = target_norm }
  IN  IF hits = {} THEN NoMatch
      ELSE Matched(recipe_ingredients[SetMin(hits)], CONF_EXACT)

\* Second loop: the first name containing target_norm or contained in it.
SubstringTier(target_norm, recipe_ingredients) ==
  LET hits == { i \in 1..Len(recipe_ingredients) :
                  LET name_norm == NormalizeIngredientName(recipe_ingredients[i])
                  IN  IsSubstr(target_norm, name_norm)
                      \/ IsSubstr(name_norm, target_norm) }
  IN  IF hits = {} THEN NoMatch
      ELSE Matched(recipe_ingredients[SetMin(hits)], CONF_SUBSTRING)

\* set(s.split())
TokenSet(s) == SeqRange(StrSplitWs(s))

\* overlap / max(len(target_tokens), len(candidate_tokens), 1)
TokenScore(target_norm, candidate_norm) ==
  LET tt == TokenSet(target_norm)
      ct == TokenSet(candidate_norm)
  IN  << Cardinality(tt \cap ct),
         SetMax({ Cardinality(tt), Cardinality(ct), 1 }) >>

\* Mutant: the sequence score is left out of the blend.
BlendedScore_TokenOnly(target_norm, candidate_norm) ==
  TokenScore(target_norm, candidate_norm)

\* score = max(token_score, sequence_score)
BlendedScore(target_norm, candidate_norm) ==
  FracMax(TokenScore(target_norm, candidate_norm),
          SequenceRatio(target_norm, candidate_norm))

\* Third loop, from position i on, with the running best_name / best_score.
RECURSIVE BestScan(_, _, _, _)
BestScan(target_norm, recipe_ingredients, i, best) ==
  IF i > Len(recipe_ingredients) THEN best
  ELSE LET candidate_norm == NormalizeIngredientName(recipe_ingredients[i])
           score == BlendedScore(target_norm, candidate_norm)
       IN  IF candidate_norm = << >>
           THEN BestScan(target_norm, recipe_ingredients, i + 1, best)
           ELSE IF FracGT(score, best.score)
           THEN BestScan(target_norm, recipe_ingredients, i + 1,
                         [ isNone |-> FALSE, name |-> recipe_ingredients[i],
                           score |-> score ])
           ELSE BestScan(target_norm, recipe_ingredients, i + 1, best)

\* The blended tier: accept the best candidate at 0.72 or more.
FuzzyTier(target_norm, recipe_ingredients) ==
  LET best == BestScan(target_norm, recipe_ingredients, 1,
                       [ isNone |-> TRUE, name |-> << >>, score |-> << 0, 1 >> ])
  IN  IF ~best.isNone /\ best.name # << >>
         /\ best.score[1] * 100 >= MATCH_THRESHOLD * best.score[2]
      THEN Matched(best.name, Round4(best.score))
      ELSE NoMatch

\* Mutant: one pass over the list, each name tried for equality and then
\* for containment, instead of one pass per tier.
MatchRecipeIngredient_SinglePass(target, recipe_ingredients) ==
  LET target_norm == NormalizeIngredientName(target)
      hits == { i \in 1..Len(recipe_ingredients) :
                  LET name_norm == NormalizeIngredientName(recipe_ingredients[i])
                  IN  IsSubstr(target_norm, name_norm)
                      \/ IsSubstr(name_norm, target_norm) }
      first == recipe_ingredients[SetMin(hits)]
  IN  IF target_norm = << >> THEN NoMatch
      ELSE IF hits # {}
      THEN Matched(first, IF NormalizeIngredientName(first) = target_norm
                          THEN CONF_EXACT ELSE CONF_SUBSTRING)
      ELSE FuzzyTier(target_norm, recipe_ingredients)

\* _match_recipe_ingredient(target, recipe_ingredients)
MatchRecipeIngredient(target, recipe_ingredients) ==
  LET target_norm == NormalizeIngredientName(target)
      exact       == ExactTier(target_norm, recipe_ingredients)
      substring   == SubstringTier(target_norm, recipe_ingredients)
  IN  IF target_norm = << >> THEN NoMatch
      ELSE IF ~exact.isNone THEN exact
      ELSE IF ~substring.isNone THEN substring
      ELSE FuzzyTier(target_norm, recipe_ingredients)

\* Texts used as inputs.
TxtFreshGinger == << "f", "r", "e", "s", "h", " ", "g", "i", "n", "g", "e", "r" >>

TxtGingerCap == << "G", "i", "n", "g", "e", "r" >>

TxtXyz123 == << "x", "y", "z", "1", "2", "3" >>

TxtDashes2 == << "-", "-" >>

TxtTomatos == << "t", "o", "m", "a", "t", "o", "s" >>

TxtRedOnion == << "r", "e", "d", " ", "o", "n", "i", "o", "n" >>

TxtGingerRoot == << "g", "i", "n", "g", "e", "r", " ", "r", "o", "o", "t" >>

TxtGinger == << "g", "i", "n", "g", "e", "r" >>

TxtGarlic == << "g", "a", "r", "l", "i", "c" >>

TxtGingerDot == << "G", "i", "n", "g", "e", "r", "." >>

TxtTomatoes == << "t", "o", "m", "a", "t", "o", "e", "s" >>

TxtOnionCommaRed == << "O", "n", "i", "o", "n", ",", " ", "R", "e", "d" >>

TxtOnionDashRed == << "o", "n", "i", "o", "n", "-", "r", "e", "d" >>

TxtDashes3 == << "-", "-", "-" >>

\* Inputs of the matcher runs.
MatchTargets ==
  << TxtFreshGinger, TxtGingerCap, TxtXyz123, TxtDashes2, TxtTomatos, TxtRedOnion >>

MatchNames ==
  << TxtGingerRoot, TxtGinger, TxtGarlic, TxtGingerDot,
     TxtTomatoes, TxtOnionCommaRed, TxtOnionDashRed, TxtDashes3 >>

\* Longest recipe ingredient list given to the matcher.
MaxListLen == 2

\* ------------------------------------------------------------------------
\* utils/flavour.py: extract_pairing_candidates
\* A JSON value is a record: t is "dict" (items: a sequence of <<key, value>>
\* pairs in key order), "list" (items: the elements), "str" (s: the text) or
\* "other" (a number, a boolean or null).
\* ------------------------------------------------------------------------

JDict(items) == [ t |-> "dict", items |-> items, s |-> << >> ]

JList(items) == [ t |-> "list", items |-> items, s |-> << >> ]

JStr(s) == [ t |-> "str", items |-> << >>, s |-> s ]

JOther == [ t |-> "other", items |-> << >>, s |-> << >> ]

PREFERRED_KEYS ==
  { "food_pair", "foodPair", "ingredient", "pairing", "pairings", "name",
    "entityName", "commonName", "common_name", "aliasReadable",
    "entityAliasReadable" }

\* A candidate longer than this is rejected.
MAX_CANDIDATE_LEN == 80

\* What one value under a preferred key adds to raw_candidates: the string,
\* or the string elements of the list.
RECURSIVE StringItems(_)
StringItems(items) ==
  IF items = << >> THEN << >>
  ELSE (IF Head(items).t = "str" THEN << Head(items).s >> ELSE << >>)
       \o StringItems(Tail(items))

CollectValue(value) ==
  IF value.t = "str" THEN << value.s >>
  ELSE IF value.t = "list" THEN StringItems(value.items)
  ELSE << >>

\* walk(node): the strings appended to raw_candidates, in order.
RECURSIVE Walk(_)
RECURSIVE WalkDictItems(_)
RECURSIVE WalkListItems(_)
Walk(node) ==
  IF node.t = "dict" THEN WalkDictItems(node.items)
  ELSE IF node.t = "list" THEN WalkListItems(node.items)
  ELSE << >>

WalkDictItems(items) ==
  IF items = << >> THEN << >>
  ELSE (IF Head(items)[1] \in PREFERRED_KEYS
        THEN CollectValue(Head(items)[2]) ELSE << >>)
       \o Walk(Head(items)[2])
       \o WalkDictItems(Tail(items))

WalkListItems(items) ==
  IF items = << >> THEN << >>
  ELSE Walk(Head(items)) \o WalkListItems(Tail(items))

\* re.split(r"\|\||,", value) from position start on: the next separator is
\* the leftmost "||" or "," at or after start.
RECURSIVE SplitFrom(_, _)
SplitFrom(value, start) ==
  LET seps == { i \in start..Len(value) :
                  \/ value[i] = ","
                  \/ value[i] = "|" /\ i + 1 <= Len(value) /\ value[i + 1] = "|" }
  IN  IF seps = {} THEN << SubSeq(value, start, Len(value)) >>
      ELSE << SubSeq(value, start, SetMin(seps) - 1) >>
           \o SplitFrom(value, SetMin(seps)
                               + (IF value[SetMin(seps)] = "," THEN 1 ELSE 2))

ReSplitPipesCommas(value) == SplitFrom(value, 1)

TxtHttp == << "h", "t", "t", "p", ":", "/", "/" >>

TxtHttps == << "h", "t", "t", "p", "s", ":", "/", "/" >>

\* Mutant: a chunk is compared with the source ingredient as passed in, not
\* with its trimmed lower-case form.
RECURSIVE ParseChunks_RawSource(_, _, _)
ParseChunks_RawSource(chunks, source_ingredient, parsed) ==
  IF chunks = << >> THEN parsed
  ELSE LET candidate == StrLower(StrStrip(Head(chunks)))
           skip == \/ candidate = << >>
                   \/ candidate = source_ingredient
                   \/ IsSubstr(TxtHttp, candidate)
                   \/ IsSubstr(TxtHttps, candidate)
                   \/ Len(candidate) > MAX_CANDIDATE_LEN
                   \/ candidate \in SeqRange(parsed)
       IN  ParseChunks_RawSource(Tail(chunks), source_ingredient,
                                 IF skip THEN parsed
                                 ELSE Append(parsed, candidate))

\* The inner loop over the chunks of one raw string; parsed is the list built
\* so far (seen is the set of its elements).
RECURSIVE ParseChunks(_, _, _)
ParseChunks(chunks, source_ingredient, parsed) ==
  IF chunks = << >> THEN parsed
  ELSE LET candidate == StrLower(StrStrip(Head(chunks)))
           source_normalized == StrLower(StrStrip(source_ingredient))
           skip == \/ candidate = << >>
                   \/ candidate = source_normalized
                   \/ IsSubstr(TxtHttp, candidate)
                   \/ IsSubstr(TxtHttps, candidate)
                   \/ Len(candidate) > MAX_CANDIDATE_LEN
                   \/ candidate \in SeqRange(parsed)
       IN  ParseChunks(Tail(chunks), source_ingredient,
                       IF skip THEN parsed ELSE Append(parsed, candidate))

\* The outer loop over raw_candidates.
RECURSIVE ParseRaw(_, _, _)
ParseRaw(raw_candidates, source_ingredient, parsed) ==
  IF raw_candidates = << >> THEN parsed
  ELSE ParseRaw(Tail(raw_candidates), source_ingredient,
                ParseChunks(ReSplitPipesCommas(Head(raw_candidates)),
                            source_ingredient, parsed))

\* extract_pairing_candidates(payload, source_ingredient)
ExtractPairingCandidates(payload, source_ingredient) ==
  ParseRaw(Walk(payload), source_ingredient, << >>)

\* n copies of the character c.
Repeat(c, n) == [ i \in 1..n |-> c ]

\* ------------------------------------------------------------------------
\* The process environment and the upstream's answers
\* ------------------------------------------------------------------------

\* None and a JSON number (truthy), told apart where the code tests truth.
JNull == [ t |-> "null", items |-> << >>, s |-> << >> ]

\* What an attribute lookup that fails stands for: the AttributeError raised.
AttributeError == [ t |-> "AttributeError", items |-> << >>, s |-> << >> ]

\* key in d
DictHas(d, key) == \E i \in 1..Len(d.items) : d.items[i][1] = key

\* d.get(key): the value under key, None when the key is absent; a list, a
\* string, a number and None have no get, and the lookup raises.
DictGet(d, key) ==
  LET hits == { i \in 1..Len(d.items) : d.items[i][1] = key }
  IN  IF d.t # "dict" THEN AttributeError
      ELSE IF hits = {} THEN JNull ELSE d.items[SetMin(hits)][2]

\* How a call ended: with its result, or with an exception that no caller
\* catches ("AttributeError", "TypeError", "ValueError", "OverflowError").
Returned(result) == [ uncaught |-> "none", result |-> result ]

Uncaught(exception) == [ uncaught |-> exception, result |-> << >> ]

\* An environment variable: unset, or set to a text.
EnvUnset == [ set |-> FALSE, v |-> << >> ]

EnvSet(v) == [ set |-> TRUE, v |-> v ]

\* "value and value.strip()" of the token candidates.
IsNonBlank(e) == e.set /\ StrStrip(e.v) # << >>

\* The value of the first candidate that is set and not blank, "" if none.
FirstNonBlank(candidates) ==
  LET hits == { i \in 1..Len(candidates) : IsNonBlank(candidates[i]) }
  IN  IF hits = {} THEN << >> ELSE candidates[SetMin(hits)].v

TxtBearerPrefix == << "b", "e", "a", "r", "e", "r", " " >>

\* str.startswith(prefix)
StartsWith(x, prefix) ==
  Len(x) >= Len(prefix) /\ SubSeq(x, 1, Len(prefix)) = prefix

\* The "Bearer " prefix removed from a stripped token.
StripBearer(token) ==
  IF StartsWith(StrLower(token), TxtBearerPrefix)
  THEN StrStrip(SubSeq(token, Len(TxtBearerPrefix) + 1, Len(token)))
  ELSE token

\* The token written in utils/flavour.py.
DEFAULT_AUTH_TOKEN ==
  << "5", "G", "Y", "S", "4", "u", "k", "G", "S", "Z", "H", "E", "I", "C",
     "P", "1", "l", "I", "O", "Q", "B", "t", "z", "B", "L", "m", "F", "c",
     "D", "M", "l", "q", "2", "7", "9", "L", "2", "Y", "-", "G", "F", "1",
     "5", "9", "y", "n", "5", "M" >>

\* utils/flavour.py _get_auth_token_and_source: the token.
FlavorAuthToken(env) ==
  StripBearer(StrStrip(FirstNonBlank(
    << env.FLAVORDB_AUTH_TOKEN, env.FOODOSCOPE_API_KEY, env.FLAVORDB_API_KEY,
       env.AUTH_TOKEN, EnvSet(DEFAULT_AUTH_TOKEN) >>)))

\* utils/recipedb.py _get_auth_token_and_source: the token.
RecipeAuthToken(env) ==
  StripBearer(StrStrip(FirstNonBlank(
    << env.RECIPEDB_AUTH_TOKEN, env.FLAVORDB_AUTH_TOKEN, env.FOODOSCOPE_API_KEY,
       env.FLAVORDB_API_KEY, env.AUTH_TOKEN >>)))

\* What one requests.get does: raises a RequestException (exc), or returns a
\* response with a status, a Retry-After header and a body that is JSON
\* (body) or is not (json = FALSE).
HttpException ==
  [ exc |-> TRUE, status |-> 0, retryAfter |-> EnvUnset, json |-> FALSE,
    body |-> JNull ]

HttpJson(status, retryAfter, body) ==
  [ exc |-> FALSE, status |-> status, retryAfter |-> retryAfter, json |-> TRUE,
    body |-> body ]

HttpText(status, retryAfter) ==
  [ exc |-> FALSE, status |-> status, retryAfter |-> retryAfter, json |-> FALSE,
    body |-> JNull ]

\* response.raise_for_status() raises for 4xx and 5xx.
IsHttpError(status) == status >= 400 /\ status < 600

\* What a client call gives its caller: the parsed payload, or a client error
\* carrying a status code.
Ok(payload) == [ ok |-> TRUE, status |-> 200, payload |-> payload ]

Err(status) == [ ok |-> FALSE, status |-> status, payload |-> JNull ]

\* ------------------------------------------------------------------------
\* utils/flavour.py: the flavor client and the profile normalizer
\* ------------------------------------------------------------------------

\* Mutant: the flavor client answers a failed request with an empty payload.
FlavorRequest_Swallow(env, http) ==
  IF FlavorAuthToken(env) = << >> THEN Err(401)
  ELSE IF http.exc \/ IsHttpError(http.status) \/ ~http.json
  THEN Ok(JDict(<< >>))
  ELSE Ok(http.body)

\* _request(path, params): one GET, no retry.
FlavorRequest(env, http) ==
  IF FlavorAuthToken(env) = << >> THEN Err(401)
  ELSE IF http.exc THEN Err(502)
  ELSE IF IsHttpError(http.status) THEN Err(http.status)
  ELSE IF ~http.json THEN Err(502)
  ELSE Ok(http.body)

\* The GETs one _request issues: none when the headers cannot be built.
FlavorRequestGets(env) == IF FlavorAuthToken(env) = << >> THEN 0 ELSE 1

\* [item for item in value if isinstance(item, dict)]
RECURSIVE DictItemsOf(_)
DictItemsOf(items) ==
  IF items = << >> THEN << >>
  ELSE (IF Head(items).t = "dict" THEN << Head(items) >> ELSE << >>)
       \o DictItemsOf(Tail(items))

\* _extract_items(payload): the records, or the AttributeError of
\* payload.get when the payload is not a dict.
ExtractItems(payload) ==
  LET nested == DictGet(payload, "payload")
      candidates ==
        << DictGet(payload, "data"), DictGet(payload, "content"),
           DictGet(payload, "results") >>
        \o (IF nested.t = "dict"
            THEN << DictGet(nested, "data"), DictGet(nested, "content"),
                    DictGet(nested, "results") >>
            ELSE << >>)
      lists == { i \in 1..Len(candidates) : candidates[i].t = "list" }
  IN  IF DictGet(payload, "data") = AttributeError
      THEN Uncaught("AttributeError")
      ELSE IF lists = {} THEN Returned(<< >>)
      ELSE Returned(DictItemsOf(candidates[SetMin(lists)].items))

\* re.split(r"[;,]", value) from position start on.
RECURSIVE SplitSemisFrom(_, _)
SplitSemisFrom(value, start) ==
  LET seps == { i \in start..Len(value) : value[i] = ";" \/ value[i] = "," }
  IN  IF seps = {} THEN << SubSeq(value, start, Len(value)) >>
      ELSE << SubSeq(value, start, SetMin(seps) - 1) >>
           \o SplitSemisFrom(value, SetMin(seps) + 1)

\* [x.strip() for x in parts if x.strip()]
RECURSIVE StrippedNonBlank(_)
StrippedNonBlank(parts) ==
  IF parts = << >> THEN << >>
  ELSE (IF StrStrip(Head(parts)) # << >> THEN << StrStrip(Head(parts)) >>
        ELSE << >>)
       \o StrippedNonBlank(Tail(parts))

\* _profile_tokens_from_value(value)
ProfileTokensFromValue(value) ==
  IF value.t = "list" THEN StringItems(value.items)
  ELSE IF value.t = "str" THEN StrippedNonBlank(SplitSemisFrom(value.s, 1))
  ELSE << >>

\* Mutant: only the first field present in the record is read.
ItemTokens_FirstPresent(item) ==
  LET fields == << "flavorProfile", "flavor_profile", "fooddb_flavor_profile",
                   "fema_flavor_profile" >>
      present == { i \in 1..Len(fields) : DictGet(item, fields[i]).t # "null" }
  IN  IF present = {} THEN << >>
      ELSE ProfileTokensFromValue(DictGet(item, fields[SetMin(present)]))

\* The tokens one molecule record contributes: those of all four fields.
ItemTokens(item) ==
  ProfileTokensFromValue(DictGet(item, "flavorProfile"))
  \o ProfileTokensFromValue(DictGet(item, "flavor_profile"))
  \o ProfileTokensFromValue(DictGet(item, "fooddb_flavor_profile"))
  \o ProfileTokensFromValue(DictGet(item, "fema_flavor_profile"))

\* The set of trimmed, lowercased, non-empty tokens of a token list.
CleanTokenSet(tokens) ==
  { StrLower(StrStrip(tokens[i])) : i \in 1..Len(tokens) } \ { << >> }

\* The profile set built by the loop over the molecule records.
RECURSIVE MoleculeProfile(_)
MoleculeProfile(items) ==
  IF items = << >> THEN {}
  ELSE CleanTokenSet(ItemTokens(Head(items))) \cup MoleculeProfile(Tail(items))

\* sorted(S) for a set of texts.
SortedTexts(S) ==
  [ k \in 1..Cardinality(S) |->
      CHOOSE x \in S : Cardinality({ y \in S : StrLess(y, x) }) = k - 1 ]

TxtEntityPrefix == << "e", "n", "t", "i", "t", "y", ":" >>

TxtCategoryPrefix == << "c", "a", "t", "e", "g", "o", "r", "y", ":" >>

\* The signature tokens of one row of topSimilarEntities.
RowSignature(row) ==
  IF row.t # "dict" THEN {}
  ELSE LET entity_name == DictGet(row, "entityName")
           category    == DictGet(row, "category")
       IN  (IF entity_name.t = "str" /\ StrStrip(entity_name.s) # << >>
            THEN { TxtEntityPrefix \o StrLower(StrStrip(entity_name.s)) }
            ELSE {})
           \cup
           (IF category.t = "str" /\ StrStrip(category.s) # << >>
            THEN { TxtCategoryPrefix \o StrLower(StrStrip(category.s)) }
            ELSE {})

RECURSIVE RowsSignature(_)
RowsSignature(rows) ==
  IF rows = << >> THEN {}
  ELSE RowSignature(Head(rows)) \cup RowsSignature(Tail(rows))

\* What a profile lookup gives: a profile (a sorted list), a client error,
\* or an exception that is not a client error; pairingQueried tells whether
\* the pairing query was issued.
ProfileOk(profile, pairingQueried) ==
  [ ok |-> TRUE, status |-> 200, profile |-> profile,
    pairingQueried |-> pairingQueried, uncaught |-> "none" ]

ProfileErr(status, pairingQueried) ==
  [ ok |-> FALSE, status |-> status, profile |-> << >>,
    pairingQueried |-> pairingQueried, uncaught |-> "none" ]

ProfileUncaught(exception, pairingQueried) ==
  [ ok |-> FALSE, status |-> 0, profile |-> << >>,
    pairingQueried |-> pairingQueried, uncaught |-> exception ]

\* _profile_from_food_pairings, given the pairing query's outcome: only a
\* 404 is turned into an empty profile, and payload.get raises when the
\* payload is not a dict.
ProfileFromFoodPairings(pairings) ==
  IF ~pairings.ok
  THEN IF pairings.status = 404 THEN ProfileOk(<< >>, TRUE)
       ELSE ProfileErr(pairings.status, TRUE)
  ELSE LET rows == DictGet(pairings.payload, "topSimilarEntities")
       IN  IF rows = AttributeError THEN ProfileUncaught("AttributeError", TRUE)
           ELSE IF rows.t # "list" THEN ProfileOk(<< >>, TRUE)
           ELSE ProfileOk(SortedTexts(RowsSignature(rows.items)), TRUE)

\* Whether get_flavor_profile_by_ingredient goes on to the pairing fallback:
\* the molecule query failed with 400 or 404, or its records gave no token.
NeedsPairingFallback(molecules) ==
  IF ~molecules.ok THEN molecules.status \in { 400, 404 }
  ELSE /\ ExtractItems(molecules.payload).uncaught = "none"
       /\ MoleculeProfile(ExtractItems(molecules.payload).result) = {}

\* What get_flavor_profile_by_ingredient gives without the fallback.
ProfileFromMolecules(molecules) ==
  IF ~molecules.ok THEN ProfileErr(molecules.status, FALSE)
  ELSE IF ExtractItems(molecules.payload).uncaught # "none"
  THEN ProfileUncaught(ExtractItems(molecules.payload).uncaught, FALSE)
  ELSE ProfileOk(SortedTexts(MoleculeProfile(
                   ExtractItems(molecules.payload).result)), FALSE)

\* get_flavor_profile_by_ingredient, given the outcomes of the molecule query
\* and (used only if the fallback is taken) of the pairing query.
GetFlavorProfileByIngredient(molecules, pairings) ==
  IF NeedsPairingFallback(molecules) THEN ProfileFromFoodPairings(pairings)
  ELSE ProfileFromMolecules(molecules)

\* ------------------------------------------------------------------------
\* utils/recipedb.py: the recipe client's _request
\* ------------------------------------------------------------------------

\* The value of a run of decimal digits.
RECURSIVE DigitsValue(_)
DigitsValue(ds) ==
  IF ds = << >> THEN 0
  ELSE 10 * DigitsValue(SubSeq(ds, 1, Len(ds) - 1))
       + (CharOrd(ds[Len(ds)]) - CharOrd("0"))

RECURSIVE Pow10(_)
Pow10(k) == IF k = 0 THEN 1 ELSE 10 * Pow10(k - 1)

TxtNan == << "n", "a", "n" >>

TxtInf == << "i", "n", "f" >>

TxtInfinity == << "i", "n", "f", "i", "n", "i", "t", "y" >>

\* A finite non-negative number written in decimal, 0.d1d2...dn * 10^exp
\* with d1 and dn not "0"; zero has no digits.  As a float it stands for
\* the double nearest to it.
Dec(digits, exp) == [ digits |-> digits, exp |-> exp ]

DecZero == Dec(<< >>, 0)

StripLeadingZeros(ds) ==
  LET nz == { i \in 1..Len(ds) : ds[i] # "0" }
  IN  IF nz = {} THEN << >> ELSE SubSeq(ds, SetMin(nz), Len(ds))

StripTrailingZeros(ds) ==
  LET nz == { i \in 1..Len(ds) : ds[i] # "0" }
  IN  IF nz = {} THEN << >> ELSE SubSeq(ds, 1, SetMax(nz))

\* x > y
DecGT(x, y) ==
  IF x.digits = << >> THEN FALSE
  ELSE IF y.digits = << >> THEN TRUE
  ELSE IF x.exp # y.exp THEN x.exp > y.exp
  ELSE StrLess(y.digits, x.digits)

\* A digitpart of the float grammar: digits, with single underscores
\* between digits.
IsDigitPart(p) ==
  /\ p # << >>
  /\ \A i \in 1..Len(p) : p[i] \in Digits \cup { "_" }
  /\ p[1] # "_"
  /\ p[Len(p)] # "_"
  /\ \A i \in 1..(Len(p) - 1) : ~(p[i] = "_" /\ p[i + 1] = "_")

DropUnderscores(p) == SelectSeq(p, LAMBDA c : c # "_")

\* Exponents of more digits than this are taken as 10^MaxExpDigits, which
\* already decides between zero and infinity for any text shorter than that.
MaxExpDigits == 6

\* The value of the digits of an exponent.
ExponentValue(ds) ==
  IF Len(StripLeadingZeros(ds)) > MaxExpDigits THEN Pow10(MaxExpDigits)
  ELSE DigitsValue(StripLeadingZeros(ds))

\* 2^1024 - 2^970, half way between the greatest double and 2^1024: a
\* decimal from here on is the float inf.
DBL_OVERFLOW ==
  Dec(<< "1", "7", "9", "7", "6", "9", "3", "1", "3", "4", "8", "6", "2", "3",
         "1", "5", "8", "0", "7", "9", "3", "7", "2", "8", "9", "7", "1", "4",
         "0", "5", "3", "0", "3", "4", "1", "5", "0", "7", "9", "9", "3", "4",
         "1", "3", "2", "7", "1", "0", "0", "3", "7", "8", "2", "6", "9", "3",
         "6", "1", "7", "3", "7", "7", "8", "9", "8", "0", "4", "4", "4", "9",
         "6", "8", "2", "9", "2", "7", "6", "4", "7", "5", "0", "9", "4", "6",
         "6", "4", "9", "0", "1", "7", "9", "7", "7", "5", "8", "7", "2", "0",
         "7", "0", "9", "6", "3", "3", "0", "2", "8", "6", "4", "1", "6", "6",
         "9", "2", "8", "8", "7", "9", "1", "0", "9", "4", "6", "5", "5", "5",
         "5", "4", "7", "8", "5", "1", "9", "4", "0", "4", "0", "2", "6", "3",
         "0", "6", "5", "7", "4", "8", "8", "6", "7", "1", "5", "0", "5", "8",
         "2", "0", "6", "8", "1", "9", "0", "8", "9", "0", "2", "0", "0", "0",
         "7", "0", "8", "3", "8", "3", "6", "7", "6", "2", "7", "3", "8", "5",
         "4", "8", "4", "5", "8", "1", "7", "7", "1", "1", "5", "3", "1", "7",
         "6", "4", "4", "7", "5", "7", "3", "0", "2", "7", "0", "0", "6", "9",
         "8", "5", "5", "5", "7", "1", "3", "6", "6", "9", "5", "9", "6", "2",
         "2", "8", "4", "2", "9", "1", "4", "8", "1", "9", "8", "6", "0", "8",
         "3", "4", "9", "3", "6", "4", "7", "5", "2", "9", "2", "7", "1", "9",
         "0", "7", "4", "1", "6", "8", "4", "4", "4", "3", "6", "5", "5", "1",
         "0", "7", "0", "4", "3", "4", "2", "7", "1", "1", "5", "5", "9", "6",
         "9", "9", "5", "0", "8", "0", "9", "3", "0", "4", "2", "8", "8", "0",
         "1", "7", "7", "9", "0", "4", "1", "7", "4", "4", "9", "7", "7", "9",
         "2" >>, 309)

\* float(text): surrounding whitespace, an optional sign, then "nan", "inf"
\* or "infinity" in any case, or a decimal number: digitparts around at most
\* one ".", at least one of them present, and an optional exponent "e" or
\* "E" with an optional sign and a digitpart.  Anything else raises
\* ValueError.  A number is given by its sign and its magnitude.
ParseFloat(text) ==
  LET s       == StrStrip(text)
      signed  == s # << >> /\ s[1] \in { "+", "-" }
      neg     == s # << >> /\ s[1] = "-"
      body    == IF signed THEN SubSeq(s, 2, Len(s)) ELSE s
      es      == { i \in 1..Len(body) : body[i] \in { "e", "E" } }
      mant    == IF es = {} THEN body ELSE SubSeq(body, 1, SetMin(es) - 1)
      expo    == IF es = {} THEN << >>
                 ELSE SubSeq(body, SetMin(es) + 1, Len(body))
      eneg    == expo # << >> /\ expo[1] = "-"
      edigits == IF expo # << >> /\ expo[1] \in { "+", "-" }
                 THEN SubSeq(expo, 2, Len(expo)) ELSE expo
      dots    == { i \in 1..Len(mant) : mant[i] = "." }
      whole   == IF dots = {} THEN mant ELSE SubSeq(mant, 1, SetMin(dots) - 1)
      frac    == IF dots = {} THEN << >>
                 ELSE SubSeq(mant, SetMin(dots) + 1, Len(mant))
      special(kind) == [ kind |-> kind, neg |-> FALSE, v |-> DecZero ]
  IN  IF StrLower(body) = TxtNan THEN special("nan")
      ELSE IF StrLower(body) \in { TxtInf, TxtInfinity }
      THEN special(IF neg THEN "-inf" ELSE "inf")
      ELSE IF /\ Cardinality(dots) <= 1
              /\ whole = << >> \/ IsDigitPart(whole)
              /\ frac = << >> \/ IsDigitPart(frac)
              /\ whole \o frac # << >>
              /\ es = {} \/ IsDigitPart(edigits)
      THEN LET f == DropUnderscores(frac)
               d == StripLeadingZeros(DropUnderscores(whole) \o f)
               e == IF eneg THEN 0 - ExponentValue(DropUnderscores(edigits))
                    ELSE ExponentValue(DropUnderscores(edigits))
               v == IF d = << >> THEN DecZero
                    ELSE Dec(StripTrailingZeros(d), Len(d) - Len(f) + e)
           IN  IF DecGT(DBL_OVERFLOW, v)
               THEN [ kind |-> "num", neg |-> neg, v |-> v ]
               ELSE special(IF neg THEN "-inf" ELSE "inf")
      ELSE special("ValueError")

\* range(2): the attempts of one call.
MAX_ATTEMPTS == 2

\* The delay when the hint is absent or unparsable, 1.0, and the least
\* delay, 0.5.
DEFAULT_DELAY == Dec(<< "1" >>, 1)

MIN_DELAY == Dec(<< "5" >>, 0)

\* A finite delay of v seconds, and the delays that are not finite.
Seconds(v) == [ kind |-> "num", v |-> v ]

NotFinite(kind) == [ kind |-> kind, v |-> DecZero ]

\* max(float(retry_after), 0.5), or 1.0 when float raises ValueError; hint
\* is what float gave.  max(x, 0.5) is x unless 0.5 > x, so nan stays nan.
DelayOfHint(hint) ==
  IF hint.kind = "ValueError" THEN Seconds(DEFAULT_DELAY)
  ELSE IF hint.kind = "num"
  THEN IF hint.neg \/ DecGT(MIN_DELAY, hint.v)
       THEN Seconds(MIN_DELAY) ELSE Seconds(hint.v)
  ELSE IF hint.kind = "-inf" THEN Seconds(MIN_DELAY)
  ELSE NotFinite(hint.kind)

\* delay_seconds, from the Retry-After header of a 429 response.
RetryDelay(retry_after) ==
  IF ~retry_after.set \/ retry_after.v = << >> THEN Seconds(DEFAULT_DELAY)
  ELSE DelayOfHint(ParseFloat(retry_after.v))

\* ------------------------------------------------------------------------
\* time.sleep(delay_seconds).  The delay is a double; time.sleep turns it
\* into a 64-bit count of nanoseconds, ceil(delay * 1e9) with the product
\* rounded to a double, and waits until the monotonic clock reads its
\* reading at the call plus that count.  These numbers do not fit the
\* integers of the checker: a natural number is written as a numeral, its
\* decimal digits from the first on without leading zeros, zero being << >>.
\* Where a definition below takes its value from a one-element set, that is
\* to have the element evaluated once before it is used.
\* ------------------------------------------------------------------------

\* The numeral of a decimal that is a whole number.
Numeral(x) == x.digits \o [ i \in 1..(x.exp - Len(x.digits)) |-> "0" ]

\* a < b
NatLess(a, b) == Len(a) < Len(b) \/ (Len(a) = Len(b) /\ StrLess(a, b))

\* a + b, digit by digit from the last one on, carrying.
NatAdd(a, b) ==
  LET DigitAt(z, p) ==
        IF p < Len(z) THEN CharOrd(z[Len(z) - p]) - CharOrd("0") ELSE 0
      RECURSIVE AddFrom(_, _, _)
      AddFrom(p, carry, acc) ==
        IF p >= Len(a) /\ p >= Len(b) /\ carry = 0 THEN acc
        ELSE LET t == DigitAt(a, p) + DigitAt(b, p) + carry
             IN  AddFrom(p + 1, t \div 10,
                         << CharTable[CharOrd("0") + (t % 10)] >> \o acc)
  IN  AddFrom(0, 0, << >>)

\* a * c for a small c > 0, digit by digit from the last one on.
NatTimes(a, c) ==
  LET RECURSIVE TimesFrom(_, _, _)
      TimesFrom(i, carry, acc) ==
        IF i = 0 /\ carry = 0 THEN acc
        ELSE LET t == carry + (IF i = 0 THEN 0
                               ELSE c * (CharOrd(a[i]) - CharOrd("0")))
             IN  TimesFrom(SetMax({ i - 1, 0 }), t \div 10,
                           << CharTable[CharOrd("0") + (t % 10)] >> \o acc)
  IN  TimesFrom(Len(a), 0, << >>)

\* a // c and a % c for a small c > 0, digit by digit from the first one on.
NatDivMod(a, c) ==
  LET RECURSIVE DivFrom(_, _, _)
      DivFrom(i, r, acc) ==
        IF i > Len(a) THEN [ q |-> StripLeadingZeros(acc), r |-> r ]
        ELSE LET t == 10 * r + (CharOrd(a[i]) - CharOrd("0"))
             IN  DivFrom(i + 1, t % c,
                         acc \o << CharTable[CharOrd("0") + (t \div c)] >>)
  IN  DivFrom(1, 0, << >>)

\* 2^52 and 2^53: a double has a significand of 53 bits.
TWO_52 == << "4", "5", "0", "3", "5", "9", "9", "6", "2", "7", "3", "7", "0", "4", "9", "6" >>

TWO_53 == << "9", "0", "0", "7", "1", "9", "9", "2", "5", "4", "7", "4", "0", "9", "9", "2" >>

\* 2^63: a count of nanoseconds is a signed 64-bit integer.
TWO_63 == << "9", "2", "2", "3", "3", "7", "2", "0", "3", "6", "8", "5", "4", "7", "7", "5", "8", "0", "8" >>

\* Rounding to the nearest, ties to the even one: q is the whole part, half
\* says that the part left out is a half or more, sticky that it is not
\* exactly a half (or, with half false, not zero).
RoundHalfEven(q, half, sticky) ==
  IF half /\ (sticky \/ (NatDivMod(q, 2).r = 1)) THEN NatAdd(q, << "1" >>) ELSE q

\* n scaled by powers of two until n / 10^f is 2^52 or more: the significand
\* m of the nearest double, which is m / 2^k.  A whole part of 12 digits or
\* fewer is below 2^42 and is scaled by 2^10 at once.
RECURSIVE ScaleToDouble(_, _, _)
ScaleToDouble(n, f, k) ==
  LET q    == SubSeq(n, 1, Len(n) - f)
      r    == [ i \in 1..(f - Len(n)) |-> "0" ] \o SubSeq(n, Len(n) - f + 1, Len(n))
      rest == SubSeq(r, 2, Len(r))
  IN  IF Len(q) <= 12
      THEN CHOOSE d \in { ScaleToDouble(scaled, f, k + 10) :
                          scaled \in { NatTimes(n, 1024) } } : TRUE
      ELSE IF NatLess(q, TWO_52)
      THEN CHOOSE d \in { ScaleToDouble(scaled, f, k + 1) :
                          scaled \in { NatTimes(n, 2) } } : TRUE
      ELSE [ m |-> RoundHalfEven(q, r # << >> /\ CharOrd(r[1]) >= CharOrd("5"),
                                 r # << >> /\ (r[1] # "5" \/ StripLeadingZeros(rest) # << >>)),
             k |-> k ]

\* float(text) for a decimal v with 0 < v < 2^53: the double nearest to v,
\* as m / 2^k with m between 2^52 and 2^53.
DoubleOf(v) ==
  IF v.exp >= Len(v.digits) THEN ScaleToDouble(Numeral(v), 0, 0)
  ELSE ScaleToDouble(v.digits, Len(v.digits) - v.exp, 0)

\* q divided by powers of two until it is below 2^53, their number counted
\* in s and what the divisions leave out kept in half and sticky, then
\* rounded: the significand p of the double nearest to the number, which is
\* p * 2^s.  A q of more than 19 digits is above 2^63 and is divided by 2^10
\* at once.
RECURSIVE ShiftRound(_, _, _, _)
ShiftRound(q, s, half, sticky) ==
  IF Len(q) > 19
  THEN CHOOSE x \in { ShiftRound(d.q, s + 10, d.r >= 512,
                                 d.r % 512 # 0 \/ half \/ sticky) :
                      d \in { NatDivMod(q, 1024) } } : TRUE
  ELSE IF ~NatLess(q, TWO_53)
  THEN CHOOSE x \in { ShiftRound(d.q, s + 1, d.r = 1, half \/ sticky) :
                      d \in { NatDivMod(q, 2) } } : TRUE
  ELSE [ p |-> RoundHalfEven(q, half, sticky), s |-> s ]

\* p * 2^e rounded up to a whole number; left says that something has been
\* left out already.
RECURSIVE CeilScaled(_, _, _)
CeilScaled(p, e, left) ==
  IF e = 0 THEN IF left THEN NatAdd(p, << "1" >>) ELSE p
  ELSE IF e >= 10
  THEN CHOOSE c \in { CeilScaled(scaled, e - 10, left) :
                      scaled \in { NatTimes(p, 1024) } } : TRUE
  ELSE IF e > 0
  THEN CHOOSE c \in { CeilScaled(scaled, e - 1, left) :
                      scaled \in { NatTimes(p, 2) } } : TRUE
  ELSE IF e <= -10
  THEN CHOOSE c \in { CeilScaled(d.q, e + 10, left \/ d.r # 0) :
                      d \in { NatDivMod(p, 1024) } } : TRUE
  ELSE CHOOSE c \in { CeilScaled(d.q, e + 1, left \/ d.r # 0) :
                      d \in { NatDivMod(p, 2) } } : TRUE

\* The count of nanoseconds of a delay of v seconds, 0 < v < 2^53:
\* ceil(d * 1e9), d being the double of v and the product a double too.
SleepNanoseconds(v) ==
  LET Billion(m) == m \o << "0", "0", "0", "0", "0", "0", "0", "0", "0" >>
  IN  CHOOSE ns \in { CeilScaled(x[2].p, x[2].s - x[1].k, FALSE) :
                      x \in { << d, ShiftRound(Billion(d.m), 0, FALSE, FALSE) >> :
                              d \in { DoubleOf(v) } } } : TRUE

\* What time.sleep(delay) does when the monotonic clock reads monotonic_ns
\* nanoseconds: returns, or raises ValueError on nan, OverflowError on a
\* delay whose count of nanoseconds does not fit 64 bits (any delay of 10^10
\* seconds or more, infinity included), and OSError (EINVAL) on a delay
\* that fits but whose deadline, monotonic_ns + count, does not.
SleepRaises(delay, monotonic_ns) ==
  IF delay.kind = "nan" THEN "ValueError"
  ELSE IF delay.kind = "inf" \/ delay.v.exp > 10 THEN "OverflowError"
  ELSE CHOOSE raised \in {
         IF ~NatLess(ns, TWO_63) THEN "OverflowError"
         ELSE IF ~NatLess(NatAdd(ns, monotonic_ns), TWO_63) THEN "OSError"
         ELSE "none" : ns \in { SleepNanoseconds(delay.v) } } : TRUE

\* _extract_api_error(response)
ExtractApiError(http) ==
  IF ~http.json \/ http.body.t # "dict" THEN NoText
  ELSE LET keys == << "error", "message", "detail" >>
           hits == { i \in 1..Len(keys) :
                       /\ DictGet(http.body, keys[i]).t = "str"
                       /\ StrStrip(DictGet(http.body, keys[i]).s) # << >> }
       IN  IF hits = {} THEN NoText
           ELSE SomeText(StrStrip(DictGet(http.body, keys[SetMin(hits)]).s))

AUTH_MARKERS ==
  { << "i", "n", "v", "a", "l", "i", "d", " ", "a", "p", "i", " ", "k", "e", "y" >>,
    << "a", "p", "i", " ", "k", "e", "y", " ", "i", "s", " ", "n", "o", "t", " ", "p", "r", "o", "v", "i", "d", "e", "d" >>,
    << "a", "p", "i", "k", "e", "y", " ", "i", "s", " ", "n", "o", "t", " ", "p", "r", "o", "v", "i", "d", "e", "d" >>,
    << "o", "n", "l", "y", " ", "b", "e", "a", "r", "e", "r", " ", "t", "o", "k", "e", "n", " ", "i", "s", " ", "a", "l", "l", "o", "w", "e", "d" >>,
    << "n", "o", "t", " ", "e", "n", "o", "u", "g", "h", " ", "t", "o", "k", "e", "n", "s" >>,
    << "u", "n", "a", "u", "t", "h", "o", "r", "i", "z", "e", "d" >>,
    << "f", "o", "r", "b", "i", "d", "d", "e", "n" >>,
    << "t", "o", "k", "e", "n", " ", "e", "x", "p", "i", "r", "e", "d" >> }

\* _looks_like_auth_error(error_text)
LooksLikeAuthError(error_text) ==
  /\ error_text.set
  /\ error_text.v # << >>
  /\ \E marker \in AUTH_MARKERS : IsSubstr(marker, StrLower(error_text.v))

\* The end of _request, after the attempts: the last response is turned into
\* the payload or into a client error.
RecipeFinish(http) ==
  IF IsHttpError(http.status)
  THEN IF LooksLikeAuthError(ExtractApiError(http)) THEN Err(401)
       ELSE Err(http.status)
  ELSE IF ~http.json THEN Err(502)
  ELSE Ok(http.body)

\* A _request whose last GET does what http says (one that is not a first
\* 429): the payload or the client error the caller gets.
RecipeRequestOnce(env, http) ==
  IF RecipeAuthToken(env) = << >> THEN Err(401)
  ELSE IF http.exc THEN Err(502)
  ELSE RecipeFinish(http)

\* The calls a request makes, in order: requests.get with what it did, and
\* time.sleep with the delay.
GetEvent(http) == [ ev |-> "get", http |-> http, delay |-> Seconds(DecZero) ]

SleepEvent(delay) == [ ev |-> "sleep", http |-> HttpException, delay |-> delay ]

\* ------------------------------------------------------------------------
\* utils/scoring.py: calculate_similarity
\* ------------------------------------------------------------------------

\* _normalize_profile(profile): a list of texts to a set.
NormalizeProfile(profile) == CleanTokenSet(profile)

\* Mutant: the overlap counts every entry of profile1 found in profile2,
\* repeats included.
CalculateSimilarity_CountsRepeats(profile1, profile2) ==
  LET set1    == NormalizeProfile(profile1)
      set2    == NormalizeProfile(profile2)
      overlap == set1 \cap set2
      union   == set1 \cup set2
      hits    == Cardinality({ i \in 1..Len(profile1) :
                                 StrLower(StrStrip(profile1[i])) \in set2 })
  IN  IF set1 = {} \/ set2 = {}
      THEN [ overlap_count |-> 0, jaccard |-> 0, dice |-> 0,
             overlap_terms |-> << >> ]
      ELSE [ overlap_count |-> hits,
             jaccard |-> Round4(<< hits, Cardinality(union) >>),
             dice |-> Round4(<< 2 * hits,
                                Cardinality(set1) + Cardinality(set2) >>),
             overlap_terms |-> SortedTexts(overlap) ]

\* Mutant: dice is taken against the size of profile1 alone.
CalculateSimilarity_DiceOfFirst(profile1, profile2) ==
  LET set1    == NormalizeProfile(profile1)
      set2    == NormalizeProfile(profile2)
      overlap == set1 \cap set2
      union   == set1 \cup set2
  IN  IF set1 = {} \/ set2 = {}
      THEN [ overlap_count |-> 0, jaccard |-> 0, dice |-> 0,
             overlap_terms |-> << >> ]
      ELSE [ overlap_count |-> Cardinality(overlap),
             jaccard |-> Round4(<< Cardinality(overlap), Cardinality(union) >>),
             dice |-> Round4(<< 2 * Cardinality(overlap),
                                2 * Cardinality(set1) >>),
             overlap_terms |-> SortedTexts(overlap) ]

\* calculate_similarity(profile1, profile2); jaccard and dice in 1/10000.
CalculateSimilarity(profile1, profile2) ==
  LET set1    == NormalizeProfile(profile1)
      set2    == NormalizeProfile(profile2)
      overlap == set1 \cap set2
      union   == set1 \cup set2
  IN  IF set1 = {} \/ set2 = {}
      THEN [ overlap_count |-> 0, jaccard |-> 0, dice |-> 0,
             overlap_terms |-> << >> ]
      ELSE [ overlap_count |-> Cardinality(overlap),
             jaccard |-> Round4(<< Cardinality(overlap), Cardinality(union) >>),
             dice |-> Round4(<< 2 * Cardinality(overlap),
                                Cardinality(set1) + Cardinality(set2) >>),
             overlap_terms |-> SortedTexts(overlap) ]

\* ------------------------------------------------------------------------
\* main.py: the replacement ranker
\* ------------------------------------------------------------------------

\* _build_why_recommended(similarity): the sentence, as the parts it is
\* formatted from.
BuildWhyRecommended(similarity) ==
  IF similarity.overlap_count <= 0
  THEN [ kind |-> "low_confidence", overlap_count |-> 0,
         jaccard |-> similarity.jaccard, terms |-> << >> ]
  ELSE IF similarity.overlap_terms # << >>
  THEN [ kind |-> "shared_including",
         overlap_count |-> similarity.overlap_count,
         jaccard |-> similarity.jaccard,
         terms |-> SubSeq(similarity.overlap_terms, 1,
                          IF Len(similarity.overlap_terms) < 3
                          THEN Len(similarity.overlap_terms) ELSE 3) ]
  ELSE [ kind |-> "shared", overlap_count |-> similarity.overlap_count,
         jaccard |-> similarity.jaccard, terms |-> << >> ]

\* The entry appended for a candidate with a non-empty profile.
RankedEntry(target_profile, candidate, candidate_profile) ==
  LET similarity == CalculateSimilarity(target_profile, candidate_profile)
  IN  [ ingredient |-> candidate,
        similarity |-> similarity,
        candidate_profile_size |-> Len(candidate_profile),
        why_recommended |-> BuildWhyRecommended(similarity) ]

\* skip_norm: the trimmed lower-case skip_ingredient, "" when None.
SkipNorm(skip_ingredient) ==
  IF skip_ingredient.set THEN StrLower(StrStrip(skip_ingredient.v)) ELSE << >>

\* Mutant: the candidate is compared with skip_ingredient as written.
IsSkipped_AsWritten(candidate, skip_ingredient) ==
  /\ SkipNorm(skip_ingredient) # << >>
  /\ candidate = skip_ingredient.v

\* Whether the loop passes over a candidate before any lookup.
IsSkipped(candidate, skip_ingredient) ==
  /\ SkipNorm(skip_ingredient) # << >>
  /\ StrLower(StrStrip(candidate)) = SkipNorm(skip_ingredient)

\* What the ranker gives: the ranked list; a client error if one escaped
\* it; an exception that is not a client error, which does escape it.
RankOk(ranked) ==
  [ ok |-> TRUE, status |-> 200, ranked |-> ranked, uncaught |-> "none" ]

RankRaised(status) ==
  [ ok |-> FALSE, status |-> status, ranked |-> << >>, uncaught |-> "none" ]

RankUncaught(exception) ==
  [ ok |-> FALSE, status |-> 0, ranked |-> << >>, uncaught |-> exception ]

\* Mutant: no try/except around the lookup, so the first failing lookup
\* ends the ranking with its error.
RECURSIVE RankScan_Propagate(_, _, _, _, _, _)
RankScan_Propagate(target_profile, candidate_pool, skip_ingredient, lookups, i, ranked) ==
  IF i > Len(candidate_pool) THEN RankOk(ranked)
  ELSE IF IsSkipped(candidate_pool[i], skip_ingredient)
  THEN RankScan_Propagate(target_profile, candidate_pool, skip_ingredient,
                          lookups, i + 1, ranked)
  ELSE IF lookups[i].uncaught # "none" THEN RankUncaught(lookups[i].uncaught)
  ELSE IF ~lookups[i].ok THEN RankRaised(lookups[i].status)
  ELSE RankScan_Propagate(target_profile, candidate_pool, skip_ingredient,
         lookups, i + 1,
         IF lookups[i].profile = << >> THEN ranked
         ELSE Append(ranked, RankedEntry(target_profile, candidate_pool[i],
                                         lookups[i].profile)))

\* The loop over candidate_pool from position i on; lookups[i] is what the
\* profile lookup of candidate i gives when it is made.  A client error is
\* passed over; any other exception ends the loop and the call.
RECURSIVE RankScan(_, _, _, _, _, _)
RankScan(target_profile, candidate_pool, skip_ingredient, lookups, i, ranked) ==
  IF i > Len(candidate_pool) THEN RankOk(ranked)
  ELSE IF /\ ~IsSkipped(candidate_pool[i], skip_ingredient)
          /\ lookups[i].uncaught # "none"
  THEN RankUncaught(lookups[i].uncaught)
  ELSE RankScan(target_profile, candidate_pool, skip_ingredient, lookups, i + 1,
         IF \/ IsSkipped(candidate_pool[i], skip_ingredient)
            \/ ~lookups[i].ok
            \/ lookups[i].profile = << >>
         THEN ranked
         ELSE Append(ranked, RankedEntry(target_profile, candidate_pool[i],
                                         lookups[i].profile)))

\* The positions of candidate_pool that the loop does not pass over.
LookedUp(candidate_pool, skip_ingredient) ==
  { i \in 1..Len(candidate_pool) :
      ~IsSkipped(candidate_pool[i], skip_ingredient) }

\* The entry of lookups for a candidate whose profile was not looked up.
NoLookup ==
  [ ok |-> FALSE, status |-> 0, profile |-> << >>, pairingQueried |-> FALSE,
    uncaught |-> "none" ]

\* The first position from i on that the loop does not pass over, one past
\* the end of the pool when there is none.
NextLookup(candidate_pool, skip_ingredient, i) ==
  SetMin({ j \in LookedUp(candidate_pool, skip_ingredient) : j >= i }
         \cup { Len(candidate_pool) + 1 })

\* Sort key order: x's (jaccard, overlap_count) is greater than y's.
KeyGreater(x, y) ==
  \/ x.similarity.jaccard > y.similarity.jaccard
  \/ /\ x.similarity.jaccard = y.similarity.jaccard
     /\ x.similarity.overlap_count > y.similarity.overlap_count

\* Mutant: sorted ascending and then reversed, which turns ties around.
RECURSIVE SortRanked_Reversed(_)
SortRanked_Reversed(ranked) ==
  IF ranked = << >> THEN << >>
  ELSE LET rest == SortRanked_Reversed(SubSeq(ranked, 1, Len(ranked) - 1))
           x    == ranked[Len(ranked)]
           k    == Cardinality({ i \in 1..Len(rest) : KeyGreater(rest[i], x) })
       IN  SubSeq(rest, 1, k) \o << x >> \o SubSeq(rest, k + 1, Len(rest))

\* ranked.sort(key=(jaccard, overlap_count), reverse=True): a stable sort,
\* greatest key first, equal keys in their original order.
RECURSIVE SortRanked(_)
SortRanked(ranked) ==
  IF ranked = << >> THEN << >>
  ELSE LET rest == SortRanked(SubSeq(ranked, 1, Len(ranked) - 1))
           x    == ranked[Len(ranked)]
           k    == Cardinality({ i \in 1..Len(rest) : ~KeyGreater(x, rest[i]) })
       IN  SubSeq(rest, 1, k) \o << x >> \o SubSeq(rest, k + 1, Len(rest))

\* _rank_replacements(target_profile, candidate_pool, skip_ingredient=...)
RankReplacements(target_profile, candidate_pool, skip_ingredient, lookups) ==
  LET scanned == RankScan(target_profile, candidate_pool, skip_ingredient,
                          lookups, 1, << >>)
  IN  IF scanned.ok THEN RankOk(SortRanked(scanned.ranked)) ELSE scanned

\* ------------------------------------------------------------------------
\* utils/recipedb.py: recipe lookup and ingredient names
\* ------------------------------------------------------------------------

\* Python truth of a JSON value (a number of the model is non-zero).
Truthy(value) ==
  IF value.t = "str" THEN value.s # << >>
  ELSE IF value.t \in { "list", "dict" } THEN value.items # << >>
  ELSE value.t = "other"

\* a or b or ...: the first truthy value, the last one if none is.
OrChain(values) ==
  LET hits == { i \in 1..Len(values) : Truthy(values[i]) }
  IN  IF hits = {} THEN values[Len(values)] ELSE values[SetMin(hits)]

\* _extract_recipe_list(payload): the records, or the AttributeError of
\* payload.get when the payload is not a dict.
ExtractRecipeList(payload) ==
  LET nested == DictGet(payload, "payload")
      candidates ==
        << DictGet(payload, "recipes"), DictGet(payload, "data") >>
        \o (IF nested.t = "dict"
            THEN << DictGet(nested, "data"), DictGet(nested, "recipes") >>
            ELSE << >>)
      lists == { i \in 1..Len(candidates) : candidates[i].t = "list" }
  IN  IF DictGet(payload, "recipes") = AttributeError
      THEN Uncaught("AttributeError")
      ELSE IF lists = {} THEN Returned(<< >>)
      ELSE Returned(DictItemsOf(candidates[SetMin(lists)].items))

\* The recipe bundle: the recipe and its ingredient records.
Bundle(recipe, ingredients) == [ recipe |-> recipe, ingredients |-> ingredients ]

\* normalize_recipe_payload(payload): the bundle, or the AttributeError of
\* payload.get when the payload is not a dict.
NormalizeRecipePayload(payload) ==
  LET nested == DictGet(payload, "payload")
      data   == DictGet(nested, "data")
  IN  IF DictGet(payload, "recipe") = AttributeError
      THEN Uncaught("AttributeError")
      ELSE IF /\ DictGet(payload, "recipe").t = "dict"
              /\ DictGet(payload, "ingredients").t = "list"
      THEN Returned(Bundle(DictGet(payload, "recipe"),
                           DictItemsOf(DictGet(payload, "ingredients").items)))
      ELSE IF nested.t = "dict" /\ data.t = "dict"
      THEN Returned(Bundle(data,
                           IF DictGet(data, "ingredients").t = "list"
                           THEN DictItemsOf(DictGet(data, "ingredients").items)
                           ELSE << >>))
      ELSE Returned(Bundle(JDict(<< >>), << >>))

\* The id the title search resolves to: Recipe_id or recipe_id or id of the
\* first match.
ResolvedId(match) ==
  OrChain(<< DictGet(match, "Recipe_id"), DictGet(match, "recipe_id"),
             DictGet(match, "id") >>)

\* What get_recipe_with_ingredients gives: the bundle, a client error, or an
\* exception that is not a client error.
RecipeOk(bundle) ==
  [ ok |-> TRUE, status |-> 200, bundle |-> bundle, uncaught |-> "none" ]

RecipeErr(status) ==
  [ ok |-> FALSE, status |-> status, bundle |-> Bundle(JDict(<< >>), << >>),
    uncaught |-> "none" ]

RecipeUncaught(exception) ==
  [ ok |-> FALSE, status |-> 0, bundle |-> Bundle(JDict(<< >>), << >>),
    uncaught |-> exception ]

\* The title branch of get_recipe_with_ingredients up to the detail request,
\* given how the search request ended: the client error or the exception
\* that ends it, RecipeOk of an empty bundle when it goes on.
SearchEnd(search) ==
  IF search.uncaught # "none" THEN RecipeUncaught(search.uncaught)
  ELSE IF ~search.result.ok THEN RecipeErr(search.result.status)
  ELSE LET matches == ExtractRecipeList(search.result.payload)
       IN  IF matches.uncaught # "none" THEN RecipeUncaught(matches.uncaught)
           ELSE IF matches.result = << >> THEN RecipeErr(404)
           ELSE IF ~Truthy(ResolvedId(matches.result[1])) THEN RecipeErr(502)
           ELSE RecipeOk(Bundle(JDict(<< >>), << >>))

\* get_recipe_with_ingredients after the detail request, given how the
\* request ended; only the recipe_id branch requires a non-empty recipe.
RecipeFromDetail(detail, byId) ==
  IF detail.uncaught # "none" THEN RecipeUncaught(detail.uncaught)
  ELSE IF ~detail.result.ok THEN RecipeErr(detail.result.status)
  ELSE LET normalized == NormalizeRecipePayload(detail.result.payload)
       IN  IF normalized.uncaught # "none"
           THEN RecipeUncaught(normalized.uncaught)
           ELSE IF byId /\ ~Truthy(normalized.result.recipe) THEN RecipeErr(404)
           ELSE RecipeOk(normalized.result)

\* The value add_name is given for an item of a list of ingredients.
NameValue(item, keys) ==
  IF item.t = "dict"
  THEN OrChain([ i \in 1..Len(keys) |-> DictGet(item, keys[i]) ])
  ELSE IF item.t = "str" THEN item
  ELSE JNull

\* add_name over a list of values: trimmed, non-empty, first of its
\* lower-case form.
RECURSIVE AddNames(_, _)
AddNames(values, names) ==
  IF values = << >> THEN names
  ELSE LET value   == Head(values)
           cleaned == StrStrip(value.s)
       IN  AddNames(Tail(values),
             IF \/ value.t # "str"
                \/ cleaned = << >>
                \/ \E k \in 1..Len(names) : StrLower(names[k]) = StrLower(cleaned)
             THEN names
             ELSE Append(names, cleaned))

\* The keys of the dicts of the model, as texts.
KeyTexts ==
  [ Recipe_id |-> << "R", "e", "c", "i", "p", "e", "_", "i", "d" >>,
    Recipe_title |-> << "R", "e", "c", "i", "p", "e", "_", "t", "i", "t", "l", "e" >>,
    Salt |-> << "S", "a", "l", "t" >>,
    aliasReadable |-> << "a", "l", "i", "a", "s", "R", "e", "a", "d", "a", "b", "l", "e" >>,
    category |-> << "c", "a", "t", "e", "g", "o", "r", "y" >>,
    commonName |-> << "c", "o", "m", "m", "o", "n", "N", "a", "m", "e" >>,
    common_name |-> << "c", "o", "m", "m", "o", "n", "_", "n", "a", "m", "e" >>,
    content |-> << "c", "o", "n", "t", "e", "n", "t" >>,
    data |-> << "d", "a", "t", "a" >>,
    detail |-> << "d", "e", "t", "a", "i", "l" >>,
    entityAliasReadable |-> << "e", "n", "t", "i", "t", "y", "A", "l", "i", "a", "s", "R", "e", "a", "d", "a", "b", "l", "e" >>,
    entityName |-> << "e", "n", "t", "i", "t", "y", "N", "a", "m", "e" >>,
    error |-> << "e", "r", "r", "o", "r" >>,
    fema_flavor_profile |-> << "f", "e", "m", "a", "_", "f", "l", "a", "v", "o", "r", "_", "p", "r", "o", "f", "i", "l", "e" >>,
    flavorProfile |-> << "f", "l", "a", "v", "o", "r", "P", "r", "o", "f", "i", "l", "e" >>,
    flavor_profile |-> << "f", "l", "a", "v", "o", "r", "_", "p", "r", "o", "f", "i", "l", "e" >>,
    foodPair |-> << "f", "o", "o", "d", "P", "a", "i", "r" >>,
    food_pair |-> << "f", "o", "o", "d", "_", "p", "a", "i", "r" >>,
    fooddb_flavor_profile |-> << "f", "o", "o", "d", "d", "b", "_", "f", "l", "a", "v", "o", "r", "_", "p", "r", "o", "f", "i", "l", "e" >>,
    id |-> << "i", "d" >>,
    ingredient |-> << "i", "n", "g", "r", "e", "d", "i", "e", "n", "t" >>,
    ingredient_Phrase |-> << "i", "n", "g", "r", "e", "d", "i", "e", "n", "t", "_", "P", "h", "r", "a", "s", "e" >>,
    ingredient_name |-> << "i", "n", "g", "r", "e", "d", "i", "e", "n", "t", "_", "n", "a", "m", "e" >>,
    ingredients |-> << "i", "n", "g", "r", "e", "d", "i", "e", "n", "t", "s" >>,
    message |-> << "m", "e", "s", "s", "a", "g", "e" >>,
    meta |-> << "m", "e", "t", "a" >>,
    name |-> << "n", "a", "m", "e" >>,
    oil |-> << "o", "i", "l" >>,
    page |-> << "p", "a", "g", "e" >>,
    pairing |-> << "p", "a", "i", "r", "i", "n", "g" >>,
    pairings |-> << "p", "a", "i", "r", "i", "n", "g", "s" >>,
    payload |-> << "p", "a", "y", "l", "o", "a", "d" >>,
    recipe |-> << "r", "e", "c", "i", "p", "e" >>,
    recipe_id |-> << "r", "e", "c", "i", "p", "e", "_", "i", "d" >>,
    recipes |-> << "r", "e", "c", "i", "p", "e", "s" >>,
    results |-> << "r", "e", "s", "u", "l", "t", "s" >>,
    topSimilarEntities |-> << "t", "o", "p", "S", "i", "m", "i", "l", "a", "r", "E", "n", "t", "i", "t", "i", "e", "s" >> ]

\* What "for item in value" goes through: the elements of a list, the
\* characters of a string, the keys of a dict; a number and None cannot be
\* iterated, and the loop raises TypeError.
IterItems(value) ==
  IF value.t = "list" THEN Returned(value.items)
  ELSE IF value.t = "str"
  THEN Returned([ i \in 1..Len(value.s) |-> JStr(<< value.s[i] >>) ])
  ELSE IF value.t = "dict"
  THEN Returned([ i \in 1..Len(value.items) |-> JStr(KeyTexts[value.items[i][1]]) ])
  ELSE Uncaught("TypeError")

\* extract_recipe_ingredient_names(recipe_bundle): the names of the bundle's
\* ingredient records, then those of recipe.get("ingredients", []).
ExtractRecipeIngredientNames(bundle) ==
  LET own == [ i \in 1..Len(bundle.ingredients) |->
                 NameValue(bundle.ingredients[i],
                           << "ingredient", "name", "ingredient_name",
                              "ingredient_Phrase" >>) ]
      listed == IF DictHas(bundle.recipe, "ingredients")
                THEN IterItems(DictGet(bundle.recipe, "ingredients"))
                ELSE Returned(<< >>)
      inner == [ i \in 1..Len(listed.result) |->
                   NameValue(listed.result[i], << "ingredient", "name" >>) ]
  IN  IF listed.uncaught # "none" THEN Uncaught(listed.uncaught)
      ELSE Returned(AddNames(own \o inner, << >>))
\* ------------------------------------------------------------------------
\* main.py: suggest_replacements and replace_in_recipe
\* ------------------------------------------------------------------------

\* "not value" for an optional text: None or "".
IsFalsyText(value) == ~value.set \/ value.v = << >>

\* str.split(",") from position start on.
RECURSIVE SplitCommasFrom(_, _)
SplitCommasFrom(value, start) ==
  LET seps == { i \in start..Len(value) : value[i] = "," }
  IN  IF seps = {} THEN << SubSeq(value, start, Len(value)) >>
      ELSE << SubSeq(value, start, SetMin(seps) - 1) >>
           \o SplitCommasFrom(value, SetMin(seps) + 1)

\* The candidates argument: None, a list of texts (replace_in_recipe) or one
\* comma-separated text (suggest_replacements).
NoCandidates == [ set |-> FALSE, list |-> << >>, text |-> << >> ]

CandidateList(list) == [ set |-> TRUE, list |-> list, text |-> << >> ]

CandidateText(text) == [ set |-> TRUE, list |-> << >>, text |-> text ]

\* Mutant: the entries are trimmed but the blank ones are kept.
ManualCandidates_KeepBlank(flow, candidates) ==
  IF ~candidates.set THEN << >>
  ELSE IF flow = "recipe"
  THEN [ i \in 1..Len(candidates.list) |-> StrStrip(candidates.list[i]) ]
  ELSE IF candidates.text = << >> THEN << >>
  ELSE StrippedNonBlank(SplitCommasFrom(candidates.text, 1))

\* manual_candidates of either handler.
ManualCandidates(flow, candidates) ==
  IF ~candidates.set THEN << >>
  ELSE IF flow = "recipe" THEN StrippedNonBlank(candidates.list)
  ELSE IF candidates.text = << >> THEN << >>
  ELSE StrippedNonBlank(SplitCommasFrom(candidates.text, 1))

\* What a handler answers: an HTTPException (status, kind, and for "not in
\* recipe" the recipe's ingredient list), or the 200 body.
HttpError(status, kind, recipe_ingredients) ==
  [ status |-> status, kind |-> kind, recipe_ingredients |-> recipe_ingredients,
    candidates_evaluated |-> 0, suggested_replacements |-> << >> ]

\* Mutant: candidates_evaluated counts the entries returned.
Suggestions_CountReturned(recipe_ingredients, ranked, limit) ==
  [ status |-> 200, kind |-> "ranking", recipe_ingredients |-> recipe_ingredients,
    candidates_evaluated |-> IF Len(ranked) < limit THEN Len(ranked) ELSE limit,
    suggested_replacements |->
      SubSeq(ranked, 1, IF Len(ranked) < limit THEN Len(ranked) ELSE limit) ]

\* The answer with the ranking: ranked[:limit] and len(ranked).
Suggestions(recipe_ingredients, ranked, limit) ==
  [ status |-> 200, kind |-> "ranking", recipe_ingredients |-> recipe_ingredients,
    candidates_evaluated |-> Len(ranked),
    suggested_replacements |->
      SubSeq(ranked, 1, IF Len(ranked) < limit THEN Len(ranked) ELSE limit) ]

\* No answer yet.
Pending == HttpError(0, "pending", << >>)

\* The answer FastAPI gives when an exception other than HTTPException
\* leaves the handler: 500.
InternalError == HttpError(500, "uncaught", << >>)

\* After the recipe lookup: the answer that ends the request, Pending when
\* it goes on to the profile lookup.  recipe is how the lookup ended, names
\* how extract_recipe_ingredient_names ended on its bundle, and match what
\* _match_recipe_ingredient gave for those names.
RecipeGate(recipe, names, match) ==
  IF recipe.uncaught # "none" THEN InternalError
  ELSE IF ~recipe.ok THEN HttpError(recipe.status, "client_error", << >>)
  ELSE IF names.uncaught # "none" THEN InternalError
  ELSE IF names.result = << >> THEN HttpError(404, "no_ingredients", << >>)
  ELSE IF match.isNone \/ match.name = << >>
  THEN HttpError(404, "not_in_recipe", names.result)
  ELSE Pending

\* Mutant: an empty profile is let through.
ProfileGate_NoEmptyCheck(lookup) ==
  IF lookup.uncaught # "none" THEN InternalError
  ELSE IF ~lookup.ok THEN HttpError(lookup.status, "client_error", << >>)
  ELSE Pending

\* After the target's profile lookup: the lookup's error status, 404 for an
\* empty profile, Pending when the request goes on.
ProfileGate(lookup) ==
  IF lookup.uncaught # "none" THEN InternalError
  ELSE IF ~lookup.ok THEN HttpError(lookup.status, "client_error", << >>)
  ELSE IF lookup.profile = << >> THEN HttpError(404, "no_profile", << >>)
  ELSE Pending

\* The pool and the answer once the pool is derived: 404 for an empty pool,
\* Pending when the request goes on to the ranking.
Pool(candidate_pool) ==
  [ pool |-> candidate_pool,
    answer |-> IF candidate_pool = << >>
               THEN HttpError(404, "no_candidates", << >>) ELSE Pending ]

\* Mutant: a failure of the pairing query is raised to the caller.
PoolFromPairings_Raise(pairings, source) ==
  IF ~pairings.ok
  THEN [ pool |-> << >>,
         answer |-> HttpError(pairings.status, "client_error", << >>) ]
  ELSE Pool(ExtractPairingCandidates(pairings.payload, source))

\* The pool when there are no manual candidates: the extractor's candidates;
\* a failed pairing query counts as no candidates.
PoolFromPairings(pairings, source) ==
  IF ~pairings.ok THEN Pool(<< >>)
  ELSE Pool(ExtractPairingCandidates(pairings.payload, source))

\* An upstream call of a handler and the status its client gave (200, or the
\* client error's status).
Call(name, status) == [ call |-> name, status |-> status ]


\* All sequences over S of length at most n.
SeqsUpTo(S, n) == UNION { [ (1..k) -> S ] : k \in 0..n }

\* Texts used in pairing payloads.
TxtGalangal == << "g", "a", "l", "a", "n", "g", "a", "l" >>

TxtGingerPadded == << " ", "G", "i", "n", "g", "e", "r", " " >>

TxtGingerCommaGalangal == << "G", "i", "n", "g", "e", "r", ",", " ", "G", "a", "l", "a", "n", "g", "a", "l" >>

TxtUrl == << "h", "t", "t", "p", "s", ":", "/", "/", "d", "b", ".", "o", "r", "g", "/", "g", "i", "n", "g", "e", "r" >>

TxtPipes == << "G", "a", "l", "a", "n", "g", "a", "l", "|", "|", "g", "a", "r", "l", "i", "c", "|", "x" >>

TxtGarlicPadded == << " ", "G", "A", "R", "L", "I", "C", " " >>

TxtCommas == << ",", ",", " ", "g", "i", "n", "g", "e", "r", " ", "," >>

TxtUrlComma == << "h", "t", "t", "p", ":", "/", "/", "a", ".", "b", "/", "c", ",", "B", "a", "s", "i", "l" >>

\* Rows of a pairing response.
ExtractRows ==
  << JDict(<< << "entityName", JStr(TxtGingerCap) >> >>),
     JDict(<< << "food_pair", JStr(TxtGingerCommaGalangal) >> >>),
     JDict(<< << "name", JStr(TxtUrlComma) >>, << "id", JOther >> >>),
     JDict(<< << "pairings",
                 JList(<< JStr(TxtPipes), JOther, JStr(TxtGarlicPadded),
                          JList(<< JStr(TxtGalangal) >>) >>) >> >>),
     JDict(<< << "meta",
                 JDict(<< << "ingredient",
                             JStr(Repeat("a", MAX_CANDIDATE_LEN + 1)) >>,
                          << "pairing",
                             JDict(<< << "commonName",
                                         JStr(Repeat("b", MAX_CANDIDATE_LEN)) >> >>) >> >>) >> >>),
     JDict(<< << "category", JStr(TxtGarlic) >>,
              << "aliasReadable", JStr(TxtCommas) >> >>),
     JStr(TxtGalangal) >>

\* Most rows in a generated pairing response.
MaxRows == 2

\* The payload of the documented example: an entity row, a food_pair row, a
\* URL under a name key and a bare URL string.
ExamplePayload ==
  JDict(<< << "topSimilarEntities",
              JList(<< JDict(<< << "entityName", JStr(TxtGingerCap) >> >>),
                       JDict(<< << "food_pair", JStr(TxtGingerCommaGalangal) >> >>),
                       JDict(<< << "name", JStr(TxtUrl) >> >>),
                       JStr(TxtUrl) >>) >> >>)

ExtractPayloads ==
  { JDict(<< << "topSimilarEntities", JList(rows) >>, << "page", JOther >> >>) :
      rows \in SeqsUpTo(SeqRange(ExtractRows), MaxRows) }
  \cup { ExamplePayload }

ExtractSources == { TxtGinger, TxtGingerPadded, TxtGarlic }

\* Texts of tokens and flavor terms.
TxtTok1 == << "t", "o", "k", "1" >>

TxtBearerTok2 == << "B", "e", "a", "r", "e", "r", " ", "t", "o", "k", "2" >>

TxtBlank == << " ", " " >>

TxtTok3 == << " ", "t", "o", "k", "3", " " >>

TxtSweetCap == << "S", "w", "e", "e", "t" >>

TxtBitterPadded == << " ", "b", "i", "t", "t", "e", "r", " " >>

TxtSpicySweet == << "s", "p", "i", "c", "y", ";", " ", "s", "w", "e", "e", "t", ",", "," >>

TxtWoodyEarthy == << "w", "o", "o", "d", "y", ",", " ", "E", "a", "r", "t", "h", "y" >>

TxtCitrus == << "c", "i", "t", "r", "u", "s" >>

TxtSpice == << "S", "p", "i", "c", "e" >>

TxtX == << "x" >>

TxtSweet == << "s", "w", "e", "e", "t" >>

TxtBitter == << "b", "i", "t", "t", "e", "r" >>

TxtSpicy == << "s", "p", "i", "c", "y" >>

TxtWoody == << "w", "o", "o", "d", "y" >>

TxtEarthy == << "e", "a", "r", "t", "h", "y" >>

\* Process environments: nothing set; AUTH_TOKEN only; a blank variable and a
\* "Bearer" token; a padded RecipeDB token.
EnvNothing ==
  [ RECIPEDB_AUTH_TOKEN |-> EnvUnset, FLAVORDB_AUTH_TOKEN |-> EnvUnset,
    FOODOSCOPE_API_KEY |-> EnvUnset, FLAVORDB_API_KEY |-> EnvUnset,
    AUTH_TOKEN |-> EnvUnset ]

EnvChoices ==
  { EnvNothing,
    [ EnvNothing EXCEPT !.AUTH_TOKEN = EnvSet(TxtTok1) ],
    [ EnvNothing EXCEPT !.FLAVORDB_AUTH_TOKEN = EnvSet(TxtBlank),
                        !.FOODOSCOPE_API_KEY = EnvSet(TxtBearerTok2) ],
    [ EnvNothing EXCEPT !.RECIPEDB_AUTH_TOKEN = EnvSet(TxtTok3) ],
    [ EnvNothing EXCEPT !.AUTH_TOKEN = EnvSet(TxtBlank) ] }

\* The environment of a deployment with a token for both clients.
ConfiguredEnv == [ EnvNothing EXCEPT !.AUTH_TOKEN = EnvSet(TxtTok1) ]

\* Answers of the molecule query.
MolTwoAliases ==
  JDict(<< << "data",
              JList(<< JDict(<< << "flavorProfile",
                                   JList(<< JStr(TxtSweetCap), JStr(TxtBitterPadded) >>) >>,
                                << "fema_flavor_profile", JStr(TxtSpicySweet) >> >>) >>) >> >>)

MolContent ==
  JDict(<< << "content",
              JList(<< JDict(<< << "flavor_profile", JStr(TxtWoodyEarthy) >> >>),
                       JOther,
                       JDict(<< << "fooddb_flavor_profile",
                                   JList(<< JStr(TxtCitrus), JOther >>) >> >>) >>) >> >>)

MolNestedNoTokens ==
  JDict(<< << "payload",
              JDict(<< << "results",
                          JList(<< JDict(<< << "commonName", JStr(TxtX) >> >>) >>) >> >>) >> >>)

MolEmptyData == JDict(<< << "data", JList(<< >>) >> >>)

MolBlankToken ==
  JDict(<< << "data", JOther >>,
           << "content",
              JList(<< JDict(<< << "flavorProfile", JList(<< JStr(TxtBlank) >>) >> >>) >>) >> >>)

MoleculeHttp ==
  { HttpException, HttpJson(200, EnvUnset, JList(<< MolEmptyData >>)),
    HttpJson(200, EnvUnset, JNull),
    HttpText(404, EnvUnset), HttpText(400, EnvUnset), HttpText(500, EnvUnset),
    HttpJson(401, EnvUnset, JDict(<< >>)), HttpText(200, EnvUnset),
    HttpJson(200, EnvUnset, MolTwoAliases), HttpJson(200, EnvUnset, MolContent),
    HttpJson(200, EnvUnset, MolNestedNoTokens),
    HttpJson(200, EnvUnset, MolEmptyData), HttpJson(200, EnvUnset, MolBlankToken) }

\* Answers of the pairing query.
PairEntities ==
  JDict(<< << "topSimilarEntities",
              JList(<< JDict(<< << "entityName", JStr(TxtGingerCap) >>,
                                << "category", JStr(TxtSpice) >> >>),
                       JStr(TxtX),
                       JDict(<< << "entityName", JStr(TxtBlank) >>,
                                << "category", JOther >> >>) >>) >> >>)

PairNoList == JDict(<< << "topSimilarEntities", JOther >> >>)

PairingHttp ==
  { HttpException, HttpJson(200, EnvUnset, JStr(TxtX)),
    HttpText(404, EnvUnset), HttpText(400, EnvUnset), HttpText(500, EnvUnset),
    HttpText(200, EnvUnset),
    HttpJson(200, EnvUnset, PairEntities), HttpJson(200, EnvUnset, PairNoList),
    HttpJson(200, EnvUnset, JDict(<< >>)), HttpJson(200, EnvUnset, ExamplePayload) }


\* ------------------------------------------------------------------------
\* Inputs of the ranker
\* ------------------------------------------------------------------------

TxtFourTerms == << "s", "w", "e", "e", "t", ",", "b", "i", "t", "t", "e", "r", ",", "w", "o", "o", "d", "y", ",", "e", "a", "r", "t", "h", "y" >>

TxtThreeTerms == << "s", "w", "e", "e", "t", ";", "w", "o", "o", "d", "y", ";", "e", "a", "r", "t", "h", "y" >>

\* Molecule answers with one, four and three profile terms.
MolSweet ==
  JDict(<< << "data",
              JList(<< JDict(<< << "flavorProfile", JList(<< JStr(TxtSweet) >>) >> >>) >>) >> >>)

MolFourTerms ==
  JDict(<< << "data",
              JList(<< JDict(<< << "flavor_profile", JStr(TxtFourTerms) >> >>) >>) >> >>)

MolThreeTerms ==
  JDict(<< << "data",
              JList(<< JDict(<< << "flavorProfile", JStr(TxtThreeTerms) >> >>) >>) >> >>)

\* What the molecule query and the pairing query of a candidate's profile
\* lookup can do; one molecule answer is a JSON list, not an object.
RankMoleculeHttp ==
  { HttpText(500, EnvUnset), HttpText(404, EnvUnset),
    HttpJson(200, EnvUnset, MolSweet), HttpJson(200, EnvUnset, MolFourTerms),
    HttpJson(200, EnvUnset, MolThreeTerms),
    HttpJson(200, EnvUnset, JList(<< >>)) }

RankPairingHttp == { HttpText(404, EnvUnset), HttpText(400, EnvUnset) }

\* The target profile, the candidate names and the skip_ingredient values.
RankTargets == { << TxtSweetCap, TxtBitterPadded >> }

RankNames == { TxtGingerCap, TxtGarlic }

RankSkips == { NoText, SomeText(TxtGingerPadded) }

MaxPool == 3

\* ------------------------------------------------------------------------
\* Inputs of the clients' _request
\* ------------------------------------------------------------------------

TxtTwo == << "2" >>

TxtQuarter == << "0", ".", "2", "5" >>

TxtMinusOne == << "-", "1" >>

TxtHttpDate == << "F", "r", "i", ",", " ", "3", "0", " ", "O", "c", "t" >>

TxtNanPadded == << " ", "N", "a", "N", " " >>

TxtInfCap == << "I", "n", "f" >>

TxtNotEnoughTokens == << "N", "o", "t", " ", "e", "n", "o", "u", "g", "h", " ", "t", "o", "k", "e", "n", "s" >>

TxtTooMany == << "T", "o", "o", " ", "m", "a", "n", "y", " ", "r", "e", "q", "u", "e", "s", "t", "s" >>

TxtThousandExp == << "1", "e", "3" >>

TxtTenUnderscore == << "1", "_", "0" >>

TxtTenBillion == << "1", "0", "0", "0", "0", "0", "0", "0", "0", "0", "0" >>

\* 9223372036 seconds: a count of nanoseconds just below 2^63.
TxtNearLimit == << "9", "2", "2", "3", "3", "7", "2", "0", "3", "6" >>

\* 9223000000 seconds: 372036.85 seconds (4.3 days) short of 2^63 ns.
TxtDaysBelowLimit == << "9", "2", "2", "3", "0", "0", "0", "0", "0", "0" >>

\* 9223371976.854775429 seconds: as written, a minute and 379 ns short of
\* 2^63 ns; the nearest double counts 9223371976854776832 ns, which is
\* 1024 ns less than a minute short of it.
TxtRoundedUp ==
  << "9", "2", "2", "3", "3", "7", "1", "9", "7", "6", ".",
     "8", "5", "4", "7", "7", "5", "4", "2", "9" >>

\* Retry-After headers: absent, empty, numbers (plain, with an exponent,
\* with an underscore, one of ten billion seconds and three just below the
\* 64-bit count of nanoseconds), a date, nan and infinity.
RetryHints ==
  { EnvUnset, EnvSet(<< >>), EnvSet(TxtTwo), EnvSet(TxtQuarter),
    EnvSet(TxtMinusOne), EnvSet(TxtThousandExp), EnvSet(TxtTenUnderscore),
    EnvSet(TxtTenBillion), EnvSet(TxtNearLimit), EnvSet(TxtDaysBelowLimit),
    EnvSet(TxtRoundedUp),
    EnvSet(TxtHttpDate), EnvSet(TxtNanPadded), EnvSet(TxtInfCap) }

\* What the monotonic clock reads when time.sleep is called, in
\* nanoseconds: a host up for a minute and one up for thirty days.
MonotonicReadings ==
  { << "6", "0", "0", "0", "0", "0", "0", "0", "0", "0", "0" >>,
    << "2", "5", "9", "2", "0", "0", "0", "0", "0", "0", "0", "0", "0", "0", "0", "0" >> }

\* Error bodies: one whose text holds an authorization marker, one without.
BodyNotEnoughTokens == JDict(<< << "message", JStr(TxtNotEnoughTokens) >> >>)

BodyTooMany ==
  JDict(<< << "error", JStr(TxtBlank) >>, << "detail", JStr(TxtTooMany) >> >>)

\* What a GET of the recipe client can do.
RecipeHttp ==
  { HttpException, HttpJson(200, EnvUnset, JDict(<< >>)), HttpText(200, EnvUnset),
    HttpText(404, EnvUnset), HttpJson(500, EnvUnset, BodyTooMany),
    HttpJson(403, EnvUnset, BodyNotEnoughTokens) }
  \cup { HttpText(429, h) : h \in RetryHints }
  \cup { HttpJson(429, EnvUnset, b) : b \in { BodyNotEnoughTokens, BodyTooMany } }

\* What the GET of the flavor client can do.
FlavorHttp ==
  { HttpException, HttpJson(200, EnvUnset, JDict(<< >>)), HttpText(200, EnvUnset),
    HttpText(404, EnvUnset), HttpText(429, EnvSet(TxtTwo)),
    HttpJson(401, EnvUnset, BodyNotEnoughTokens) }

\* ------------------------------------------------------------------------
\* Inputs of the handlers
\* ------------------------------------------------------------------------

TxtId2610 == << "2", "6", "1", "0" >>

TxtSoup == << "S", "o", "u", "p" >>

\* Answers of the title search: one match with an id, no match, a match
\* without an id.
SearchOne ==
  JDict(<< << "recipes", JList(<< JDict(<< << "Recipe_id", JStr(TxtId2610) >> >>) >>) >> >>)

SearchNone == JDict(<< << "data", JList(<< JOther >>) >> >>)

SearchNoId ==
  JDict(<< << "payload",
              JDict(<< << "data", JList(<< JDict(<< << "Recipe_title", JStr(TxtSoup) >> >>) >>) >> >>) >> >>)

\* Answers of the recipe detail request.
DetailFlat ==
  JDict(<< << "recipe", JDict(<< << "Recipe_id", JStr(TxtId2610) >> >>) >>,
           << "ingredients",
              JList(<< JDict(<< << "ingredient", JStr(TxtBlank) >>,
                                << "name", JStr(TxtGingerPadded) >> >>),
                       JStr(TxtX),
                       JDict(<< << "ingredient_Phrase", JStr(TxtGarlic) >> >>),
                       JDict(<< << "name", JStr(TxtGinger) >> >>) >>) >> >>)

DetailNested ==
  JDict(<< << "payload",
              JDict(<< << "data",
                          JDict(<< << "Recipe_title", JStr(TxtSoup) >>,
                                   << "ingredients",
                                      JList(<< JDict(<< << "name", JStr(TxtGingerCap) >> >>),
                                               JStr(TxtRedOnion) >>) >> >>) >> >>) >> >>)

\* The recipe has an "ingredients" entry of its own that is not a list: a
\* text, a dict, null.
DetailOwnText ==
  JDict(<< << "payload",
              JDict(<< << "data",
                          JDict(<< << "ingredients", JStr(TxtGingerCap) >> >>) >> >>) >> >>)

DetailOwnDict ==
  JDict(<< << "recipe",
              JDict(<< << "ingredients",
                          JDict(<< << "oil", JOther >>, << "Salt", JOther >> >>) >> >>) >>,
           << "ingredients", JList(<< JStr(TxtGingerPadded) >>) >> >>)

DetailOwnNull ==
  JDict(<< << "recipe", JDict(<< << "ingredients", JNull >> >>) >>,
           << "ingredients", JList(<< JStr(TxtGingerPadded) >>) >> >>)

DetailNoIngredients ==
  JDict(<< << "recipe", JDict(<< << "Recipe_id", JStr(TxtId2610) >> >>) >>,
           << "ingredients", JList(<< JDict(<< << "name", JOther >> >>) >>) >> >>)

\* An answer of the pairing query with two candidates.
PairCandidates ==
  JDict(<< << "topSimilarEntities",
              JList(<< JDict(<< << "entityName", JStr(TxtGalangal) >> >>),
                       JDict(<< << "entityName", JStr(TxtGingerCap) >> >>),
                       JDict(<< << "entityName", JStr(TxtGarlic) >> >>) >>) >> >>)

\* What the upstream can do at each request of a handler.  Among the
\* answers are rate-limit responses (429), with a hint that can be slept and
\* one that cannot, and JSON bodies that are not objects.
RepSearchHttp ==
  { HttpJson(200, EnvUnset, SearchOne), HttpJson(200, EnvUnset, SearchNone),
    HttpJson(200, EnvUnset, SearchNoId), HttpText(500, EnvUnset),
    HttpJson(429, EnvUnset, BodyNotEnoughTokens),
    HttpText(429, EnvSet(TxtTenBillion)), HttpText(429, EnvSet(TxtNearLimit)),
    HttpJson(200, EnvUnset, JList(<< >>)) }

RepDetailHttp ==
  { HttpJson(200, EnvUnset, DetailFlat), HttpJson(200, EnvUnset, DetailNested),
    HttpJson(200, EnvUnset, DetailNoIngredients),
    HttpJson(200, EnvUnset, DetailOwnText), HttpJson(200, EnvUnset, DetailOwnDict),
    HttpJson(200, EnvUnset, DetailOwnNull),
    HttpJson(200, EnvUnset, JDict(<< >>)), HttpJson(200, EnvUnset, JStr(TxtX)),
    HttpText(404, EnvUnset), HttpException,
    HttpText(429, EnvSet(TxtTwo)), HttpText(429, EnvSet(TxtNanPadded)) }

RepMoleculeHttp ==
  { HttpText(500, EnvUnset), HttpText(404, EnvUnset),
    HttpJson(200, EnvUnset, MolTwoAliases), HttpJson(200, EnvUnset, JOther) }

RepFallbackHttp ==
  { HttpText(404, EnvUnset), HttpText(400, EnvUnset), HttpException,
    HttpJson(200, EnvUnset, PairEntities), HttpJson(200, EnvUnset, JList(<< >>)) }

RepPoolHttp ==
  { HttpText(500, EnvUnset), HttpText(401, EnvUnset), HttpException,
    HttpText(404, EnvUnset), HttpJson(200, EnvUnset, PairNoList),
    HttpJson(200, EnvUnset, PairCandidates),
    HttpJson(200, EnvUnset, JList(<< >>)) }

\* What the upstream answers to the queries of a candidate's profile lookup
\* inside a handler.
RepCandidateMoleculeHttp ==
  { HttpText(500, EnvUnset), HttpText(404, EnvUnset),
    HttpJson(200, EnvUnset, MolSweet), HttpJson(200, EnvUnset, MolThreeTerms),
    HttpJson(200, EnvUnset, JList(<< >>)) }

RepCandidatePairingHttp == { HttpText(404, EnvUnset) }

\* The requests: limit is between 1 and 20 in the code's request models.
MaxLimit == 1

\* limit: ge=1, le=20
LIMIT_LE == 20

Limits == (1..MaxLimit) \cup { LIMIT_LE }

\* replace_in_recipe: every way of giving recipe_id and title with one
\* request, and every ingredient, limit and candidates with the recipe given
\* by its id.
RecipePayloads ==
  { [ recipe_id |-> it[1], title |-> it[2], ingredient |-> TxtGingerPadded,
      limit |-> 1,
      candidates |-> CandidateList(<< TxtGarlicPadded, << >>, TxtGingerPadded,
                                      TxtGalangal >>) ] :
      it \in { << NoText, NoText >>, << SomeText(<< >>), SomeText(<< >>) >>,
               << SomeText(TxtId2610), NoText >>, << NoText, SomeText(TxtSoup) >> } }
  \cup
  { [ recipe_id |-> SomeText(TxtId2610), title |-> NoText, ingredient |-> i,
      limit |-> l, candidates |-> c ] :
      i \in { TxtGingerPadded, TxtXyz123 },
      l \in Limits,
      c \in { NoCandidates, CandidateList(<< TxtBlank >>),
              CandidateList(<< TxtGarlicPadded, << >>, TxtGingerPadded,
                               TxtGalangal >>) } }

SuggestPayloads ==
  { [ recipe_id |-> NoText, title |-> NoText, ingredient |-> TxtGinger,
      limit |-> l, candidates |-> c ] :
      l \in Limits,
      c \in { NoCandidates, CandidateText(<< >>), CandidateText(TxtCommas),
              CandidateText(TxtGingerCommaGalangal) } }

\* ------------------------------------------------------------------------
\* Inputs of the scorer
\* ------------------------------------------------------------------------

\* Profile entries: with capitals, padding, a repeat after cleaning, a blank.
ScoreTokens == { TxtSweetCap, TxtSweet, TxtBitterPadded, TxtWoody, TxtBlank }

MaxProfileLen == 2

ScoreProfiles == SeqsUpTo(ScoreTokens, MaxProfileLen)
\* ------------------------------------------------------------------------
\* State
\* ------------------------------------------------------------------------

VARIABLES
  procEnv,       \* the process environment (os.getenv)
  matchTarget,   \* the target argument of _match_recipe_ingredient
  matchList,     \* its recipe_ingredients argument
  matchResult,   \* the returned (name, confidence)
  matchPc,       \* "call" before the call, "done" after it returned
  extPayload,    \* the payload argument of extract_pairing_candidates
  extSource,     \* its source_ingredient argument
  extResult,     \* the returned list
  extPc,         \* "call" before the call, "done" after it returned
  profMolecules, \* what the molecule query's GET did, in a profile lookup
  profPairings,  \* what the pairing query's GET did
  profCalls,     \* the upstream queries issued so far, in order
  profResult,    \* what get_flavor_profile_by_ingredient gave
  profPc,        \* "molecules", "pairings" or "done"
  rankTarget,    \* the target_profile argument of _rank_replacements
  rankPool,      \* its candidate_pool argument
  rankSkip,      \* its skip_ingredient argument
  rankLookups,   \* what the profile lookup of each candidate gave
  rankIndex,     \* the position in the pool of the candidate being looked up
  rankResult,    \* the returned list
  rankPc,        \* "call", the query "molecules" or "pairings" under way, "done"
  reqClient,     \* whose _request runs: "recipe" or "flavor"
  reqAttempt,    \* the loop variable attempt of the recipe client
  reqResponse,   \* the last response received
  reqLog,        \* the requests.get and time.sleep calls made, in order
  reqEnd,        \* how the call ended
  reqPc,         \* "get", "sleep", "finish", "flavor" or "done"
  repFlow,       \* the handler: "recipe" (replace_in_recipe) or "suggest"
  repPayload,    \* the request
  repPc,         \* the upstream call the handler is about to make, or "done"
  repAttempt,    \* the loop variable attempt of the recipe client's _request
  repResponse,   \* the 429 response whose Retry-After is being waited for
  repCalls,      \* the upstream calls made so far, in order
  repRecipe,     \* what get_recipe_with_ingredients gave
  repNames,      \* recipe_ingredients
  repMatch,      \* what the matcher gave
  repProfile,    \* what the target's profile lookup gave
  repPool,       \* candidate_pool
  repPairings,   \* what the pairing query for the pool gave
  repLookups,    \* what the profile lookup of each candidate gave
  repIndex,      \* the position in the pool of the candidate being looked up
  repRanked,     \* ranked, the sorted ranking before truncation
  repAnswer,     \* the answer to the caller
  scoreProfile1, \* the profile1 argument of calculate_similarity
  scoreProfile2, \* its profile2 argument
  scoreResult,   \* the returned dict
  scorePc        \* "call" before the call, "done" after it returned

matchVars == << matchTarget, matchList, matchResult, matchPc >>

extVars == << extPayload, extSource, extResult, extPc >>

profVars == << profMolecules, profPairings, profCalls, profResult, profPc >>

rankVars ==
  << rankTarget, rankPool, rankSkip, rankLookups, rankIndex, rankResult, rankPc >>

reqVars == << reqClient, reqAttempt, reqResponse, reqLog, reqEnd, reqPc >>

repVars ==
  << repFlow, repPayload, repPc, repAttempt, repResponse, repCalls, repRecipe,
     repNames, repMatch, repProfile, repPool, repPairings, repLookups, repIndex,
     repRanked, repAnswer >>

scoreVars == << scoreProfile1, scoreProfile2, scoreResult, scorePc >>

vars ==
  << procEnv, matchVars, extVars, profVars, rankVars, reqVars, repVars,
     scoreVars >>

MatchIdle ==
  /\ matchTarget = << >>
  /\ matchList = << >>
  /\ matchResult = NoMatch
  /\ matchPc = "idle"

ExtIdle ==
  /\ extPayload = JOther
  /\ extSource = << >>
  /\ extResult = << >>
  /\ extPc = "idle"

ProfIdle ==
  /\ profMolecules = HttpException
  /\ profPairings = HttpException
  /\ profCalls = << >>
  /\ profResult = ProfileOk(<< >>, FALSE)
  /\ profPc = "idle"

RankIdle ==
  /\ rankTarget = << >>
  /\ rankPool = << >>
  /\ rankSkip = NoText
  /\ rankLookups = << >>
  /\ rankIndex = 0
  /\ rankResult = RankOk(<< >>)
  /\ rankPc = "idle"

ReqIdle ==
  /\ reqClient = "none"
  /\ reqAttempt = 0
  /\ reqResponse = HttpException
  /\ reqLog = << >>
  /\ reqEnd = Returned(Err(0))
  /\ reqPc = "idle"

RepIdle ==
  /\ repFlow = "none"
  /\ repPayload = << >>
  /\ repPc = "idle"
  /\ repAttempt = 0
  /\ repResponse = HttpException
  /\ repCalls = << >>
  /\ repRecipe = RecipeErr(0)
  /\ repNames = << >>
  /\ repMatch = NoMatch
  /\ repProfile = ProfileOk(<< >>, FALSE)
  /\ repPool = << >>
  /\ repPairings = Err(0)
  /\ repLookups = << >>
  /\ repIndex = 0
  /\ repRanked = << >>
  /\ repAnswer = Pending

ScoreIdle ==
  /\ scoreProfile1 = << >>
  /\ scoreProfile2 = << >>
  /\ scoreResult = CalculateSimilarity(<< >>, << >>)
  /\ scorePc = "idle"

\* Every component but the one named is idle.
IdleBut(component) ==
  /\ IF component = "match" THEN TRUE ELSE MatchIdle
  /\ IF component = "ext" THEN TRUE ELSE ExtIdle
  /\ IF component = "prof" THEN TRUE ELSE ProfIdle
  /\ IF component = "rank" THEN TRUE ELSE RankIdle
  /\ IF component = "req" THEN TRUE ELSE ReqIdle
  /\ IF component = "rep" THEN TRUE ELSE RepIdle
  /\ IF component = "score" THEN TRUE ELSE ScoreIdle

\* A step of the named component leaves the others and the environment alone.
FrameBut(component) ==
  /\ UNCHANGED procEnv
  /\ IF component = "match" THEN TRUE ELSE UNCHANGED matchVars
  /\ IF component = "ext" THEN TRUE ELSE UNCHANGED extVars
  /\ IF component = "prof" THEN TRUE ELSE UNCHANGED profVars
  /\ IF component = "rank" THEN TRUE ELSE UNCHANGED rankVars
  /\ IF component = "req" THEN TRUE ELSE UNCHANGED reqVars
  /\ IF component = "rep" THEN TRUE ELSE UNCHANGED repVars
  /\ IF component = "score" THEN TRUE ELSE UNCHANGED scoreVars

\* ------------------------------------------------------------------------
\* The matcher, called on its own
\* ------------------------------------------------------------------------

MatchInit ==
  /\ matchTarget \in SeqRange(MatchTargets)
  /\ matchList \in SeqsUpTo(SeqRange(MatchNames), MaxListLen)
  /\ matchResult = NoMatch
  /\ matchPc = "call"

\* One call of _match_recipe_ingredient.
MatchCall ==
  /\ matchPc = "call"
  /\ matchResult' = MatchRecipeIngredient(matchTarget, matchList)
  /\ matchPc' = "done"
  /\ UNCHANGED << matchTarget, matchList >>
  /\ FrameBut("match")

InitMatch == procEnv = ConfiguredEnv /\ MatchInit /\ IdleBut("match")

NextMatch == MatchCall

SpecMatch == InitMatch /\ [][NextMatch]_vars

\* ------------------------------------------------------------------------
\* The candidate extractor, called on its own
\* ------------------------------------------------------------------------

ExtInit ==
  /\ extPayload \in ExtractPayloads
  /\ extSource \in ExtractSources
  /\ extResult = << >>
  /\ extPc = "call"

\* One call of extract_pairing_candidates.
ExtCall ==
  /\ extPc = "call"
  /\ extResult' = ExtractPairingCandidates(extPayload, extSource)
  /\ extPc' = "done"
  /\ UNCHANGED << extPayload, extSource >>
  /\ FrameBut("ext")

InitExtract == procEnv = ConfiguredEnv /\ ExtInit /\ IdleBut("ext")

NextExtract == ExtCall

SpecExtract == InitExtract /\ [][NextExtract]_vars

\* ------------------------------------------------------------------------
\* One profile lookup: get_flavor_profile_by_ingredient
\* ------------------------------------------------------------------------

ProfInit ==
  /\ profMolecules = HttpException
  /\ profPairings = HttpException
  /\ profCalls = << >>
  /\ profResult = ProfileOk(<< >>, FALSE)
  /\ profPc = "molecules"

\* The molecule query and what is made of its answer: a result, or the
\* decision to fall back on the pairing query.
ProfQueryMolecules ==
  /\ profPc = "molecules"
  /\ \E http \in MoleculeHttp :
       LET molecules == FlavorRequest(procEnv, http)
       IN  /\ profMolecules' = http
           /\ profCalls' = Append(profCalls, "molecules")
           /\ IF NeedsPairingFallback(molecules)
              THEN profPc' = "pairings" /\ UNCHANGED profResult
              ELSE /\ profPc' = "done"
                   /\ profResult' = ProfileFromMolecules(molecules)
  /\ UNCHANGED profPairings
  /\ FrameBut("prof")

\* The fallback: the pairing query and the signature made of its answer.
ProfQueryPairings ==
  /\ profPc = "pairings"
  /\ \E http \in PairingHttp :
       /\ profPairings' = http
       /\ profCalls' = Append(profCalls, "pairings")
       /\ profResult' = ProfileFromFoodPairings(FlavorRequest(procEnv, http))
       /\ profPc' = "done"
  /\ UNCHANGED profMolecules
  /\ FrameBut("prof")

InitProfile == procEnv \in EnvChoices /\ ProfInit /\ IdleBut("prof")

NextProfile == ProfQueryMolecules \/ ProfQueryPairings

SpecProfile == InitProfile /\ [][NextProfile]_vars


\* ------------------------------------------------------------------------
\* The ranker, called on its own
\* ------------------------------------------------------------------------

RankInit ==
  /\ rankTarget \in RankTargets
  /\ rankPool \in SeqsUpTo(RankNames, MaxPool)
  /\ rankSkip \in RankSkips
  /\ rankLookups = [ i \in 1..Len(rankPool) |-> NoLookup ]
  /\ rankIndex = 0
  /\ rankResult = RankOk(<< >>)
  /\ rankPc = "call"

\* The loop of _rank_replacements from position i on, lookups being what
\* the lookups made so far gave, up to its next GET: the molecule query of
\* the next candidate that is not passed over; or, when there is none or an
\* exception left the last lookup, up to the end of the call.
RankFrom(lookups, i) ==
  /\ rankLookups' = lookups
  /\ rankIndex' = NextLookup(rankPool, rankSkip, i)
  /\ IF \/ \E k \in 1..Len(lookups) : lookups[k].uncaught # "none"
        \/ NextLookup(rankPool, rankSkip, i) > Len(rankPool)
     THEN /\ rankResult' = RankReplacements(rankTarget, rankPool, rankSkip, lookups)
          /\ rankPc' = "done"
     ELSE /\ rankPc' = "molecules"
          /\ UNCHANGED rankResult

\* The call of _rank_replacements up to its first GET.
RankCall ==
  /\ rankPc = "call"
  /\ RankFrom(rankLookups, 1)
  /\ UNCHANGED << rankTarget, rankPool, rankSkip >>
  /\ FrameBut("rank")

\* The molecule query of the candidate's profile lookup; the upstream
\* decides what it gives.
RankMolecules ==
  /\ rankPc = "molecules"
  /\ \E http \in RankMoleculeHttp :
       LET molecules == FlavorRequest(procEnv, http)
       IN  IF NeedsPairingFallback(molecules)
           THEN /\ rankPc' = "pairings"
                /\ UNCHANGED << rankLookups, rankIndex, rankResult >>
           ELSE RankFrom([ rankLookups EXCEPT
                             ![rankIndex] = ProfileFromMolecules(molecules) ],
                         rankIndex + 1)
  /\ UNCHANGED << rankTarget, rankPool, rankSkip >>
  /\ FrameBut("rank")

\* The pairing query of the candidate's profile lookup.
RankPairings ==
  /\ rankPc = "pairings"
  /\ \E http \in RankPairingHttp :
       RankFrom([ rankLookups EXCEPT
                    ![rankIndex] =
                       ProfileFromFoodPairings(FlavorRequest(procEnv, http)) ],
                rankIndex + 1)
  /\ UNCHANGED << rankTarget, rankPool, rankSkip >>
  /\ FrameBut("rank")

InitRank == procEnv = ConfiguredEnv /\ RankInit /\ IdleBut("rank")

NextRank == RankCall \/ RankMolecules \/ RankPairings

SpecRank == InitRank /\ [][NextRank]_vars

\* ------------------------------------------------------------------------
\* One _request of either client
\* ------------------------------------------------------------------------

ReqInit ==
  /\ reqClient \in { "recipe", "flavor" }
  /\ reqAttempt = 0
  /\ reqResponse = HttpException
  /\ reqLog = << >>
  /\ reqEnd = Returned(Err(0))
  /\ reqPc = IF reqClient = "recipe" THEN "get" ELSE "flavor"

\* One pass of the recipe client's loop up to the sleep: the headers are
\* built, the GET is made, and its outcome decides what follows.
RecipeGet ==
  /\ reqPc = "get"
  /\ reqAttempt < MAX_ATTEMPTS
  /\ IF RecipeAuthToken(procEnv) = << >>
     THEN /\ reqEnd' = Returned(Err(401))
          /\ reqPc' = "done"
          /\ UNCHANGED << reqResponse, reqLog >>
     ELSE \E http \in RecipeHttp :
            /\ reqLog' = Append(reqLog, GetEvent(http))
            /\ IF http.exc
               THEN /\ reqEnd' = Returned(Err(502))
                    /\ reqPc' = "done"
                    /\ UNCHANGED reqResponse
               ELSE /\ reqResponse' = http
                    /\ reqPc' = IF http.status = 429 /\ reqAttempt = 0
                                THEN "sleep" ELSE "finish"
                    /\ UNCHANGED reqEnd
  /\ UNCHANGED << reqClient, reqAttempt >>
  /\ FrameBut("req")

\* After a first 429: the delay is worked out and slept, and the loop goes
\* on, unless time.sleep raises; the clock decides with the delay whether it
\* does.
RecipeSleep ==
  /\ reqPc = "sleep"
  /\ \E delay \in { RetryDelay(reqResponse.retryAfter) } :
     \E monotonic_ns \in MonotonicReadings :
     \E raised \in { SleepRaises(delay, monotonic_ns) } :
         IF raised # "none"
         THEN /\ reqEnd' = Uncaught(raised)
              /\ reqPc' = "done"
              /\ UNCHANGED << reqAttempt, reqLog >>
         ELSE /\ reqLog' = Append(reqLog, SleepEvent(delay))
              /\ reqAttempt' = reqAttempt + 1
              /\ reqPc' = "get"
              /\ UNCHANGED reqEnd
  /\ UNCHANGED << reqClient, reqResponse >>
  /\ FrameBut("req")

\* After the loop: raise_for_status and the JSON parse of the last response.
RecipeReturn ==
  /\ reqPc = "finish"
  /\ reqEnd' = Returned(RecipeFinish(reqResponse))
  /\ reqPc' = "done"
  /\ UNCHANGED << reqClient, reqAttempt, reqResponse, reqLog >>
  /\ FrameBut("req")

\* The flavor client's _request, whole.
FlavorCall ==
  /\ reqPc = "flavor"
  /\ IF FlavorAuthToken(procEnv) = << >>
     THEN /\ reqEnd' = Returned(Err(401))
          /\ UNCHANGED << reqResponse, reqLog >>
     ELSE \E http \in FlavorHttp :
            /\ reqLog' = Append(reqLog, GetEvent(http))
            /\ reqResponse' = http
            /\ reqEnd' = Returned(FlavorRequest(procEnv, http))
  /\ reqPc' = "done"
  /\ UNCHANGED << reqClient, reqAttempt >>
  /\ FrameBut("req")

InitRequest == procEnv \in EnvChoices /\ ReqInit /\ IdleBut("req")

NextRequest == RecipeGet \/ RecipeSleep \/ RecipeReturn \/ FlavorCall

SpecRequest == InitRequest /\ [][NextRequest]_vars

\* ------------------------------------------------------------------------
\* The handlers replace_in_recipe and suggest_replacements, call by call
\* ------------------------------------------------------------------------

RepInit ==
  /\ repFlow \in { "recipe", "suggest" }
  /\ repPayload \in (IF repFlow = "recipe" THEN RecipePayloads ELSE SuggestPayloads)
  /\ repPc = IF repFlow = "recipe" THEN "start" ELSE "molecules"
  /\ repAttempt = 0
  /\ repResponse = HttpException
  /\ repCalls = << >>
  /\ repRecipe = RecipeErr(0)
  /\ repNames = << >>
  /\ repMatch = NoMatch
  /\ repProfile = ProfileOk(<< >>, FALSE)
  /\ repPool = << >>
  /\ repPairings = Err(0)
  /\ repLookups = << >>
  /\ repIndex = 0
  /\ repRanked = << >>
  /\ repAnswer = Pending

\* The ingredient whose profile and pairings are looked up, and the name the
\* ranker skips.
RepTarget == IF repFlow = "recipe" THEN repMatch.name ELSE repPayload.ingredient

RepSkip == IF repFlow = "recipe" THEN SomeText(repMatch.name) ELSE NoText

\* The status a client call ended with, 0 for an exception that is not a
\* client error.
EndStatus(end) == IF end.uncaught # "none" THEN 0 ELSE end.result.status

\* replace_in_recipe up to its first upstream call.
RepStart ==
  /\ repPc = "start"
  /\ IF IsFalsyText(repPayload.recipe_id) /\ IsFalsyText(repPayload.title)
     THEN /\ repAnswer' = HttpError(400, "provide_id_or_title", << >>)
          /\ repPc' = "done"
     ELSE /\ repPc' = IF IsFalsyText(repPayload.recipe_id) THEN "search"
                      ELSE "detail"
          /\ UNCHANGED repAnswer
  /\ UNCHANGED << repFlow, repPayload, repAttempt, repResponse, repCalls,
                  repRecipe, repNames, repMatch, repProfile, repPool,
                  repPairings, repLookups, repIndex, repRanked >>
  /\ FrameBut("rep")

\* A GET of the recipe client is answered by a 429 that is waited for: it
\* is the first attempt.
RepMustWait(http) ==
  /\ RecipeAuthToken(procEnv) # << >>
  /\ ~http.exc
  /\ http.status = 429
  /\ repAttempt = 0

\* From the end of the title search to the next upstream call, search being
\* how search_recipes_by_title ended.
RepAfterSearch(search) ==
  /\ repCalls' = Append(repCalls, Call("search", EndStatus(search)))
  /\ repAttempt' = 0
  /\ repResponse' = HttpException
  /\ \E end \in { SearchEnd(search) } :
       IF end.ok
       THEN /\ repPc' = "detail"
            /\ UNCHANGED << repRecipe, repAnswer >>
       ELSE /\ repRecipe' = end
            /\ repAnswer' = RecipeGate(end, Returned(<< >>), NoMatch)
            /\ repPc' = "done"

\* One GET of the title search.
RepSearch ==
  /\ repPc = "search"
  /\ \E http \in RepSearchHttp :
       IF RepMustWait(http)
       THEN /\ repResponse' = http
            /\ repPc' = "search_wait"
            /\ UNCHANGED << repAttempt, repCalls, repRecipe, repAnswer >>
       ELSE RepAfterSearch(Returned(RecipeRequestOnce(procEnv, http)))
  /\ UNCHANGED << repFlow, repPayload, repNames, repMatch, repProfile, repPool,
                  repPairings, repLookups, repIndex, repRanked >>
  /\ FrameBut("rep")

\* The wait after a first 429 of the title search: time.sleep returns, or
\* raises an exception that leaves the handler.
RepSearchWait ==
  /\ repPc = "search_wait"
  /\ \E monotonic_ns \in MonotonicReadings :
     \E raised \in { SleepRaises(RetryDelay(repResponse.retryAfter), monotonic_ns) } :
       IF raised # "none"
       THEN RepAfterSearch(Uncaught(raised))
       ELSE /\ repAttempt' = repAttempt + 1
            /\ repPc' = "search"
            /\ UNCHANGED << repResponse, repCalls, repRecipe, repAnswer >>
  /\ UNCHANGED << repFlow, repPayload, repNames, repMatch,
                  repProfile, repPool, repPairings, repLookups, repIndex,
                  repRanked >>
  /\ FrameBut("rep")

\* From the end of the detail request to the next upstream call: the
\* ingredient names and the matcher.
RepAfterDetail(detail) ==
  \E recipe \in { RecipeFromDetail(detail, ~IsFalsyText(repPayload.recipe_id)) } :
  \E names \in { ExtractRecipeIngredientNames(recipe.bundle) } :
  \E match \in { IF names.uncaught # "none" THEN NoMatch
                 ELSE MatchRecipeIngredient(repPayload.ingredient, names.result) } :
  \E answer \in { RecipeGate(recipe, names, match) } :
    /\ repCalls' = Append(repCalls, Call("detail", EndStatus(detail)))
    /\ repAttempt' = 0
    /\ repResponse' = HttpException
    /\ repRecipe' = recipe
    /\ repNames' = names.result
    /\ repMatch' = match
    /\ IF answer = Pending
       THEN repPc' = "molecules" /\ UNCHANGED repAnswer
       ELSE repAnswer' = answer /\ repPc' = "done"

\* One GET of the detail request.
RepDetail ==
  /\ repPc = "detail"
  /\ \E http \in RepDetailHttp :
       IF RepMustWait(http)
       THEN /\ repResponse' = http
            /\ repPc' = "detail_wait"
            /\ UNCHANGED << repAttempt, repCalls, repRecipe, repNames, repMatch,
                            repAnswer >>
       ELSE RepAfterDetail(Returned(RecipeRequestOnce(procEnv, http)))
  /\ UNCHANGED << repFlow, repPayload, repProfile, repPool, repPairings,
                  repLookups, repIndex, repRanked >>
  /\ FrameBut("rep")

\* The wait after a first 429 of the detail request.
RepDetailWait ==
  /\ repPc = "detail_wait"
  /\ \E monotonic_ns \in MonotonicReadings :
     \E raised \in { SleepRaises(RetryDelay(repResponse.retryAfter), monotonic_ns) } :
       IF raised # "none"
       THEN RepAfterDetail(Uncaught(raised))
       ELSE /\ repAttempt' = repAttempt + 1
            /\ repPc' = "detail"
            /\ UNCHANGED << repResponse, repCalls, repRecipe, repNames, repMatch,
                            repAnswer >>
  /\ UNCHANGED << repFlow, repPayload, repProfile, repPool,
                  repPairings, repLookups, repIndex, repRanked >>
  /\ FrameBut("rep")

\* The loop of _rank_replacements from position i of the pool on, lookups
\* being what the lookups made so far gave, up to its next GET or, when no
\* candidate is left or an exception left the last lookup, up to the answer.
RepRankFrom(target_profile, candidate_pool, lookups, i) ==
  LET ranking == RankReplacements(target_profile, candidate_pool, RepSkip, lookups)
  IN  /\ repLookups' = lookups
      /\ repIndex' = NextLookup(candidate_pool, RepSkip, i)
      /\ IF \/ \E k \in 1..Len(lookups) : lookups[k].uncaught # "none"
            \/ NextLookup(candidate_pool, RepSkip, i) > Len(candidate_pool)
         THEN /\ repRanked' = ranking.ranked
              /\ repAnswer' = IF ranking.uncaught # "none" THEN InternalError
                              ELSE Suggestions(repNames, ranking.ranked,
                                               repPayload.limit)
              /\ repPc' = "done"
         ELSE /\ repPc' = "rank_molecules"
              /\ UNCHANGED << repRanked, repAnswer >>

\* From the end of the target's profile lookup to the next upstream call.
RepAfterProfile(lookup) ==
  /\ repProfile' = lookup
  /\ \E answer \in { ProfileGate(lookup) } :
     \E manual \in { ManualCandidates(repFlow, repPayload.candidates) } :
       IF answer # Pending
       THEN /\ repAnswer' = answer
            /\ repPc' = "done"
            /\ UNCHANGED << repPool, repLookups, repIndex, repRanked >>
       ELSE /\ repPool' = manual
            /\ IF manual = << >>
               THEN /\ repPc' = "pool"
                    /\ UNCHANGED << repAnswer, repLookups, repIndex, repRanked >>
               ELSE RepRankFrom(lookup.profile, manual,
                                [ i \in 1..Len(manual) |-> NoLookup ], 1)

\* The molecule query of the target's profile lookup.
RepMolecules ==
  /\ repPc = "molecules"
  /\ \E http \in RepMoleculeHttp :
       LET molecules == FlavorRequest(procEnv, http)
       IN  /\ repCalls' = Append(repCalls, Call("molecules", molecules.status))
           /\ IF NeedsPairingFallback(molecules)
              THEN /\ repPc' = "fallback"
                   /\ UNCHANGED << repProfile, repPool, repLookups, repIndex,
                                   repRanked, repAnswer >>
              ELSE RepAfterProfile(ProfileFromMolecules(molecules))
  /\ UNCHANGED << repFlow, repPayload, repAttempt, repResponse, repRecipe,
                  repNames, repMatch, repPairings >>
  /\ FrameBut("rep")

\* The pairing query of the target's profile lookup.
RepFallback ==
  /\ repPc = "fallback"
  /\ \E http \in RepFallbackHttp :
       LET pairings == FlavorRequest(procEnv, http)
       IN  /\ repCalls' = Append(repCalls, Call("fallback", pairings.status))
           /\ RepAfterProfile(ProfileFromFoodPairings(pairings))
  /\ UNCHANGED << repFlow, repPayload, repAttempt, repResponse, repRecipe,
                  repNames, repMatch, repPairings >>
  /\ FrameBut("rep")

\* The pairing query that derives the pool, made when there are no manual
\* candidates.
RepPool ==
  /\ repPc = "pool"
  /\ \E http \in RepPoolHttp :
       LET pairings == FlavorRequest(procEnv, http)
           derived  == PoolFromPairings(pairings, RepTarget)
       IN  /\ repCalls' = Append(repCalls, Call("pool", pairings.status))
           /\ repPairings' = pairings
           /\ repPool' = derived.pool
           /\ IF derived.answer = Pending
              THEN RepRankFrom(repProfile.profile, derived.pool,
                               [ i \in 1..Len(derived.pool) |-> NoLookup ], 1)
              ELSE /\ repAnswer' = derived.answer
                   /\ repPc' = "done"
                   /\ UNCHANGED << repLookups, repIndex, repRanked >>
  /\ UNCHANGED << repFlow, repPayload, repAttempt, repResponse, repRecipe,
                  repNames, repMatch, repProfile >>
  /\ FrameBut("rep")

\* From the end of a candidate's profile lookup to the next upstream call
\* or to the answer.
RepAfterLookup(lookup) ==
  /\ repCalls' = Append(repCalls, Call("candidate_profile", lookup.status))
  /\ RepRankFrom(repProfile.profile, repPool,
                 [ repLookups EXCEPT ![repIndex] = lookup ], repIndex + 1)

\* The molecule query of a candidate's profile lookup, inside the ranker.
RepRankMolecules ==
  /\ repPc = "rank_molecules"
  /\ \E http \in RepCandidateMoleculeHttp :
       LET molecules == FlavorRequest(procEnv, http)
       IN  IF NeedsPairingFallback(molecules)
           THEN /\ repPc' = "rank_pairings"
                /\ UNCHANGED << repCalls, repLookups, repIndex, repRanked,
                                repAnswer >>
           ELSE RepAfterLookup(ProfileFromMolecules(molecules))
  /\ UNCHANGED << repFlow, repPayload, repAttempt, repResponse, repRecipe,
                  repNames, repMatch, repProfile, repPool, repPairings >>
  /\ FrameBut("rep")

\* The pairing query of a candidate's profile lookup, inside the ranker.
RepRankPairings ==
  /\ repPc = "rank_pairings"
  /\ \E http \in RepCandidatePairingHttp :
       RepAfterLookup(ProfileFromFoodPairings(FlavorRequest(procEnv, http)))
  /\ UNCHANGED << repFlow, repPayload, repAttempt, repResponse, repRecipe,
                  repNames, repMatch, repProfile, repPool, repPairings >>
  /\ FrameBut("rep")

InitReplace == procEnv = ConfiguredEnv /\ RepInit /\ IdleBut("rep")

NextReplace ==
  \/ RepStart \/ RepSearch \/ RepSearchWait \/ RepDetail \/ RepDetailWait
  \/ RepMolecules \/ RepFallback \/ RepPool \/ RepRankMolecules
  \/ RepRankPairings

SpecReplace == InitReplace /\ [][NextReplace]_vars

\* ------------------------------------------------------------------------
\* The scorer calculate_similarity, called on its own
\* ------------------------------------------------------------------------

ScoreInit ==
  /\ scoreProfile1 \in ScoreProfiles
  /\ scoreProfile2 \in ScoreProfiles
  /\ scoreResult = CalculateSimilarity(<< >>, << >>)
  /\ scorePc = "call"

ScoreCall ==
  /\ scorePc = "call"
  /\ scoreResult' = CalculateSimilarity(scoreProfile1, scoreProfile2)
  /\ scorePc' = "done"
  /\ UNCHANGED << scoreProfile1, scoreProfile2 >>
  /\ FrameBut("score")

InitScore == procEnv = ConfiguredEnv /\ ScoreInit /\ IdleBut("score")

NextScore == ScoreCall

SpecScore == InitScore /\ [][NextScore]_vars
\* ------------------------------------------------------------------------
\* Claims about the matcher (checked under SpecMatch)
\* ------------------------------------------------------------------------

\* C1 as stated: match("fresh ginger", ["ginger root", "garlic"]) returns a
\* name containing "ginger" with confidence exactly 0.9.
C1_SubstringExampleAsStated ==
  (matchPc = "done" /\ matchTarget = TxtFreshGinger
     /\ matchList = << TxtGingerRoot, TxtGarlic >>)
  => /\ ~matchResult.isNone
     /\ IsSubstr(TxtGinger, matchResult.name)
     /\ matchResult.conf = 9000

\* C1 amended: match("fresh ginger", ["ginger root", "garlic"]) returns
\* (None, 0.0), because neither normalized name contains the other and the
\* best blended score, 12/23, is below 0.72; the substring tier's 0.9 is what
\* match("fresh ginger", ["ginger", "garlic"]) returns, with the name "ginger".
C1_SubstringExampleAmended ==
  matchPc = "done" /\ matchTarget = TxtFreshGinger =>
    /\ matchList = << TxtGingerRoot, TxtGarlic >> =>
         /\ matchResult.isNone
         /\ matchResult.conf = 0
    /\ matchList = << TxtGinger, TxtGarlic >> =>
         /\ ~matchResult.isNone
         /\ matchResult.name = TxtGinger
         /\ matchResult.conf = 9000

C1_Witness ==
  /\ matchPc = "done"
  /\ matchTarget = TxtFreshGinger
  /\ matchList = << TxtGingerRoot, TxtGarlic >>
  /\ matchResult.isNone

\* The normal forms of the entries of a list, entry by entry.
RECURSIVE NormAll(_)
NormAll(names) ==
  IF names = << >> THEN << >>
  ELSE << NormalizeIngredientName(Head(names)) >> \o NormAll(Tail(names))

\* C2: for a target whose normal form is not empty, if some list entry
\* normalizes to exactly the target the result is the first such entry (as
\* written in the list) with confidence 1.0, even after an earlier entry
\* that only contains the target; otherwise, if some entry's normal form
\* contains the target's or is contained in it, the result is the first such
\* entry with confidence 0.9.
C2_TiersInOrderOverWholeList ==
  matchPc = "done" =>
  \A tn \in { NormalizeIngredientName(matchTarget) } :
  \A norms \in { NormAll(matchList) } :
  LET idx    == 1..Len(matchList)
      eq(i)  == norms[i] = tn
      sub(i) == IsSubstr(tn, norms[i]) \/ IsSubstr(norms[i], tn)
  IN  tn # << >> =>
        /\ \A i \in idx :
             (eq(i) /\ \A j \in 1..(i - 1) : ~eq(j)) =>
               matchResult = [ isNone |-> FALSE, name |-> matchList[i],
                               conf |-> 10000 ]
        /\ \A i \in idx :
             ((\A j \in idx : ~eq(j)) /\ sub(i) /\ \A j \in 1..(i - 1) : ~sub(j)) =>
               matchResult = [ isNone |-> FALSE, name |-> matchList[i],
                               conf |-> 9000 ]

C2_Witness ==
  /\ matchPc = "done"
  /\ matchTarget = TxtGingerCap
  /\ matchList = << TxtGingerRoot, TxtGingerDot >>
  /\ matchResult = [ isNone |-> FALSE, name |-> TxtGingerDot, conf |-> 10000 ]

\* max(|T & C| / max(|T|, |C|, 1), sequence ratio) of a target's normal form
\* against each normal form of a list.
RECURSIVE BlendAll(_, _)
BlendAll(tn, norms) ==
  IF norms = << >> THEN << >>
  ELSE LET c   == Head(norms)
           tok == << Cardinality(TokenSet(tn) \cap TokenSet(c)),
                     SetMax({ Cardinality(TokenSet(tn)),
                              Cardinality(TokenSet(c)), 1 }) >>
           seq == SequenceRatio(tn, c)
       IN  << IF FracGT(seq, tok) THEN seq ELSE tok >>
           \o BlendAll(tn, Tail(norms))

\* C3: when neither the exact nor the substring tier applies, each entry is
\* scored max(|T & C| / max(|T|, |C|, 1), sequence ratio); the entry with the
\* highest score (the earliest on ties) is returned with the score rounded to
\* 4 decimals if and only if that score is at least 0.72, and in every other
\* case, an empty list and a target with an empty normal form included, the
\* result is (None, 0.0).
C3_BlendedTierThreshold ==
  matchPc = "done" =>
  \A tn \in { NormalizeIngredientName(matchTarget) } :
  \A norms \in { NormAll(matchList) } :
  \A score \in { BlendAll(tn, norms) } :
  LET idx     == 1..Len(matchList)
      sub(i)  == IsSubstr(tn, norms[i]) \/ IsSubstr(norms[i], tn)
      best(i) == /\ \A j \in idx : ~FracGT(score[j], score[i])
                 /\ \A j \in 1..(i - 1) : FracGT(score[i], score[j])
      ok(i)   == score[i][1] * 100 >= 72 * score[i][2]
  IN    /\ (tn = << >> \/ matchList = << >>) => matchResult = NoMatch
        /\ (tn # << >> /\ \A i \in idx : ~sub(i)) =>
             /\ \A i \in idx :
                  (best(i) /\ ok(i)) =>
                    matchResult = [ isNone |-> FALSE, name |-> matchList[i],
                                    conf |-> Round4(score[i]) ]
             /\ (\A i \in idx : ~ok(i)) => matchResult = NoMatch

C3_Witness ==
  /\ matchPc = "done"
  /\ matchTarget = TxtTomatos
  /\ matchList = << TxtGarlic, TxtTomatoes >>
  /\ matchResult = [ isNone |-> FALSE, name |-> TxtTomatoes, conf |-> 9333 ]

\* ------------------------------------------------------------------------
\* Claims about the candidate extractor (checked under SpecExtract)
\* ------------------------------------------------------------------------

\* Every fragment of every collected string, lowercased and trimmed, in
\* encounter order.
RECURSIVE C4_Fragments(_)
C4_Fragments(raw) ==
  IF raw = << >> THEN << >>
  ELSE LET chunks == ReSplitPipesCommas(Head(raw))
       IN  [ i \in 1..Len(chunks) |-> StrLower(StrStrip(chunks[i])) ]
           \o C4_Fragments(Tail(raw))

\* C4: the extractor returns the fragments of the strings collected under
\* name-like keys (split on "||" and ",", lowercased, trimmed), without the
\* empty ones, the source ingredient, URLs and fragments longer than 80
\* characters, each kept at its first occurrence only; so the output has no
\* duplicate, no source ingredient, no empty string, no URL and nothing longer
\* than 80 characters, and the documented example yields ["galangal"].
C4_ExtractorReference ==
  extPc = "done" =>
  \A frags \in { C4_Fragments(Walk(extPayload)) } :
  \A src \in { StrLower(StrStrip(extSource)) } :
  LET ok(i) == /\ frags[i] # << >>
               /\ frags[i] # src
               /\ ~IsSubstr(TxtHttp, frags[i])
               /\ ~IsSubstr(TxtHttps, frags[i])
               /\ Len(frags[i]) <= 80
      keep  == { i \in 1..Len(frags) :
                   ok(i) /\ \A j \in 1..(i - 1) : frags[j] # frags[i] }
  IN  /\ extResult = PickIndices(frags, keep)
      /\ \A i, j \in 1..Len(extResult) : i # j => extResult[i] # extResult[j]
      /\ \A i \in 1..Len(extResult) :
           /\ extResult[i] # << >>
           /\ extResult[i] # src
           /\ ~IsSubstr(TxtHttp, extResult[i])
           /\ ~IsSubstr(TxtHttps, extResult[i])
           /\ Len(extResult[i]) <= 80
      /\ (extPayload = ExamplePayload /\ extSource = TxtGinger) =>
           extResult = << TxtGalangal >>

C4_Witness ==
  /\ extPc = "done"
  /\ extPayload = ExamplePayload
  /\ extSource = TxtGinger
  /\ extResult = << TxtGalangal >>

\* ------------------------------------------------------------------------
\* Claims about the profile lookup (checked under SpecProfile)
\* ------------------------------------------------------------------------

C10_Aliases ==
  << "flavorProfile", "flavor_profile", "fooddb_flavor_profile",
     "fema_flavor_profile" >>

\* The cleaned tokens of the first alias present in a record.
C10_FirstPresentTokens(item) ==
  LET present == { i \in 1..4 : DictGet(item, C10_Aliases[i]).t # "null" }
  IN  IF present = {} THEN {}
      ELSE CleanTokenSet(ProfileTokensFromValue(
             DictGet(item, C10_Aliases[SetMin(present)])))

\* The cleaned tokens of every alias present in a record.
C10_AllPresentTokens(item) ==
  UNION { CleanTokenSet(ProfileTokensFromValue(DictGet(item, C10_Aliases[i]))) :
            i \in 1..4 }

\* The molecule records of a lookup that was answered from the molecule query.
C10_Records ==
  ExtractItems(FlavorRequest(procEnv, profMolecules).payload).result

C10_FromMolecules ==
  profPc = "done" /\ profResult.ok /\ ~profResult.pairingQueried

\* C10 as stated: each molecule record contributes the tokens of its first
\* present alias only; later aliases of the same record contribute nothing.
C10_FirstAliasOnlyAsStated ==
  C10_FromMolecules =>
    SeqRange(profResult.profile)
      = UNION { C10_FirstPresentTokens(C10_Records[i]) :
                  i \in 1..Len(C10_Records) }

\* C10 amended: each molecule record contributes the tokens of every one of
\* the four fields flavorProfile, flavor_profile, fooddb_flavor_profile and
\* fema_flavor_profile that it holds; the profile is the sorted union of them
\* all, so a record with flavorProfile ["Sweet", " bitter "] and
\* fema_flavor_profile "spicy; sweet,," gives ["bitter", "spicy", "sweet"].
C10_AllAliasesContribute ==
  C10_FromMolecules =>
    /\ SeqRange(profResult.profile)
         = UNION { C10_AllPresentTokens(C10_Records[i]) :
                     i \in 1..Len(C10_Records) }
    /\ profMolecules = HttpJson(200, EnvUnset, MolTwoAliases) =>
         profResult.profile = << TxtBitter, TxtSpicy, TxtSweet >>

C10_Witness ==
  /\ profPc = "done"
  /\ profMolecules = HttpJson(200, EnvUnset, MolTwoAliases)
  /\ profResult = ProfileOk(<< TxtBitter, TxtSpicy, TxtSweet >>, FALSE)


\* ------------------------------------------------------------------------
\* C5: the order of the ranked list
\* ------------------------------------------------------------------------

\* The pool positions whose candidate gets an entry, per the loop's tests.
C5_Kept ==
  { i \in LookedUp(rankPool, rankSkip) :
      rankLookups[i].ok /\ rankLookups[i].profile # << >> }

\* The entry of each kept pool position.
C5_Entries ==
  [ i \in C5_Kept |->
      RankedEntry(rankTarget, rankPool[i], rankLookups[i].profile) ]

\* Two entries agree on both sort keys.
C5_SameKey(x, y) == ~KeyGreater(x, y) /\ ~KeyGreater(y, x)

\* Where the entry of kept position i must stand: after every entry with a
\* greater key and after every earlier pool position with an equal key.
C5_Place(entries, i) ==
  1 + Cardinality({ j \in DOMAIN entries :
        \/ KeyGreater(entries[j], entries[i])
        \/ j < i /\ C5_SameKey(entries[j], entries[i]) })

\* C5: the list returned by _rank_replacements is ordered by jaccard
\* descending, then by overlap_count descending, and entries equal on both
\* keys stand in the order of their candidates in the pool.
C5_RankedOrderStable ==
  (rankPc = "done" /\ rankResult.uncaught = "none") =>
    \A entries \in { C5_Entries } : \A ranked \in { rankResult.ranked } :
      /\ rankResult.ok
      /\ Len(ranked) = Cardinality(DOMAIN entries)
      /\ \A i \in 1..Len(ranked) : \A j \in 1..Len(ranked) :
           i < j =>
             \/ ranked[i].similarity.jaccard > ranked[j].similarity.jaccard
             \/ /\ ranked[i].similarity.jaccard = ranked[j].similarity.jaccard
                /\ ranked[i].similarity.overlap_count
                     >= ranked[j].similarity.overlap_count
      /\ \A i \in DOMAIN entries : ranked[C5_Place(entries, i)] = entries[i]

\* A returned list of three entries of one jaccard value: the one of
\* overlap 2 first though its candidate came last in the pool, then two
\* entries equal on both keys, of different candidates, in pool order.
C5_Witness ==
  /\ rankPc = "done"
  /\ rankResult.ok
  /\ Len(rankResult.ranked) = 3
  /\ rankResult.ranked[1].ingredient = rankPool[3]
  /\ rankResult.ranked[1].similarity.jaccard = rankResult.ranked[2].similarity.jaccard
  /\ rankResult.ranked[1].similarity.overlap_count = 2
  /\ rankResult.ranked[2].similarity.overlap_count = 1
  /\ C5_SameKey(rankResult.ranked[2], rankResult.ranked[3])
  /\ rankResult.ranked[2].ingredient = rankPool[1]
  /\ rankResult.ranked[3].ingredient = rankPool[2]
  /\ rankPool[1] # rankPool[2]

\* ------------------------------------------------------------------------
\* C6: candidates whose lookup fails or is empty are dropped
\* ------------------------------------------------------------------------

\* Every profile lookup the loop made gave a profile or failed with a client
\* error of the flavor client.
C6_ClientErrorsOnly ==
  \A j \in 1..Len(rankLookups) : rankLookups[j].uncaught = "none"

\* C6: when the profile lookups of the candidates give a profile or fail
\* with a client error, whatever its status, _rank_replacements does not
\* raise: a candidate whose lookup failed or gave an empty profile is passed
\* over, and the ingredients of the result are exactly the non-skipped pool
\* candidates whose lookup gave a non-empty profile, wherever in the pool
\* the failing candidates stand.  No call ends with a client error.
C6_FailedLookupsDropped ==
  rankPc = "done" =>
    /\ rankResult.ok \/ rankResult.uncaught # "none"
    /\ C6_ClientErrorsOnly =>
         /\ rankResult.ok
         /\ { rankResult.ranked[k].ingredient : k \in 1..Len(rankResult.ranked) }
              = { rankPool[i] :
                    i \in { j \in 1..Len(rankPool) :
                              /\ ~IsSkipped(rankPool[j], rankSkip)
                              /\ rankLookups[j].ok
                              /\ rankLookups[j].profile # << >> } }

\* A pool whose first candidate's lookup failed with a client error, whose
\* second gave an empty profile and whose third gave a profile and is ranked.
C6_Witness ==
  /\ rankPc = "done"
  /\ Len(rankPool) = 3
  /\ ~IsSkipped(rankPool[1], rankSkip)
  /\ ~rankLookups[1].ok
  /\ rankLookups[1].uncaught = "none"
  /\ rankLookups[1].status = 500
  /\ ~IsSkipped(rankPool[2], rankSkip)
  /\ rankLookups[2].ok /\ rankLookups[2].profile = << >>
  /\ rankPool[3] # rankPool[1]
  /\ Len(rankResult.ranked) = 1
  /\ rankResult.ranked[1].ingredient = rankPool[3]

\* Outside the claim's case: the molecule query of the first candidate was
\* answered with a JSON list, its lookup ended with AttributeError, which is
\* not a client error, and so did the call.
C6_ListBodyEndsRanking ==
  /\ rankPc = "done"
  /\ rankPool # << >>
  /\ ~IsSkipped(rankPool[1], rankSkip)
  /\ rankLookups[1].uncaught = "AttributeError"
  /\ rankResult = RankUncaught("AttributeError")

\* ------------------------------------------------------------------------
\* C9: the attempts and the wait of one _request
\* ------------------------------------------------------------------------

\* The GETs and the sleeps of the call, in order.
C9_Gets == SelectSeq(reqLog, LAMBDA e : e.ev = "get")

C9_Sleeps == SelectSeq(reqLog, LAMBDA e : e.ev = "sleep")

\* The response of a GET is a 429.
C9_Is429(e) == ~e.http.exc /\ e.http.status = 429

\* The wait the claim gives for a Retry-After header: max(hint, 0.5) for a
\* number, 1.0 for an absent or unparsable one.
C9_StatedWait(retry_after) ==
  IF retry_after.set /\ ParseFloat(retry_after.v).kind = "num"
  THEN IF \/ ParseFloat(retry_after.v).neg
          \/ DecGT(MIN_DELAY, ParseFloat(retry_after.v).v)
       THEN MIN_DELAY ELSE ParseFloat(retry_after.v).v
  ELSE DEFAULT_DELAY

\* C9: one _request of the recipe client issues at most two GETs; a second
\* GET is issued if and only if the first response was a 429, after exactly
\* one wait; a network exception ends the call with status 502; a second 429
\* ends it with a client error of status 429; the wait is max(hint, 0.5) for
\* a numeric hint and 1.0 otherwise, never below 0.5.  The flavor client
\* issues exactly one GET and never waits.
C9_RetryProtocolAsStated ==
  reqPc = "done" =>
    \A gets \in { C9_Gets } : \A sleeps \in { C9_Sleeps } :
      IF reqClient = "recipe"
      THEN /\ Len(gets) <= 2
           /\ RecipeAuthToken(procEnv) # << >> =>
                /\ Len(gets) >= 1
                /\ (Len(gets) = 2) <=> C9_Is429(gets[1])
                /\ IF Len(gets) = 2
                   THEN /\ Len(reqLog) = 3
                        /\ reqLog[2].ev = "sleep"
                        /\ reqLog[2].delay.kind = "num"
                        /\ ~DecGT(MIN_DELAY, reqLog[2].delay.v)
                        /\ reqLog[2].delay.v
                             = C9_StatedWait(gets[1].http.retryAfter)
                   ELSE sleeps = << >>
                /\ gets[Len(gets)].http.exc => reqEnd = Returned(Err(502))
                /\ (Len(gets) = 2 /\ C9_Is429(gets[2])) =>
                     reqEnd = Returned(Err(429))
      ELSE /\ Len(gets) = 1
           /\ sleeps = << >>

\* The first GET was answered 429 with "Retry-After: 10000000000": the wait
\* raised OverflowError, and the call ended with it after that one GET.
C9_WaitRaised ==
  /\ reqPc = "done"
  /\ reqClient = "recipe"
  /\ reqResponse.retryAfter = EnvSet(TxtTenBillion)
  /\ RetryDelay(reqResponse.retryAfter).kind = "num"
  /\ Len(reqLog) = 1
  /\ reqEnd = Uncaught("OverflowError")

\* The first GET was answered 429 with "Retry-After: 9223000000", a delay
\* that fits the count of nanoseconds: on a host up for thirty days the
\* deadline does not fit, the wait raised OSError and the call ended with it
\* after that one GET.
C9_DeadlineRaised ==
  /\ reqPc = "done"
  /\ reqClient = "recipe"
  /\ reqResponse.retryAfter = EnvSet(TxtDaysBelowLimit)
  /\ Len(reqLog) = 1
  /\ reqEnd = Uncaught("OSError")

\* The same answer on a host up for a minute: the wait was made and the
\* second GET followed.
C9_DeadlineMet ==
  /\ reqPc = "done"
  /\ reqClient = "recipe"
  /\ Len(reqLog) = 3
  /\ reqLog[1].ev = "get"
  /\ reqLog[1].http.retryAfter = EnvSet(TxtDaysBelowLimit)
  /\ reqLog[2].ev = "sleep"
  /\ reqLog[3].ev = "get"

\* ------------------------------------------------------------------------
\* C7: the order of the checks of replace_in_recipe
\* ------------------------------------------------------------------------

\* The names of the upstream calls made.
C7_CallNames == { repCalls[i].call : i \in 1..Len(repCalls) }

\* Neither recipe_id nor title is given.
C7_NoIdNoTitle ==
  IsFalsyText(repPayload.recipe_id) /\ IsFalsyText(repPayload.title)

\* How the extraction of the recipe's ingredient names ended.
C7_Names == ExtractRecipeIngredientNames(repRecipe.bundle)

\* The recipe was found and its ingredient names were extracted.
C7_NamesExtracted == repRecipe.ok /\ C7_Names.uncaught = "none"

\* The ingredient was matched, so that its profile was looked up.
C7_Matched == C7_NamesExtracted /\ ~repMatch.isNone

\* A candidate's profile lookup ended with an exception that is not a client
\* error.
C7_CandidateLookupRaised ==
  \E k \in 1..Len(repLookups) : repLookups[k].uncaught # "none"

\* Requirements (1) to (4), each deciding the answer when it is the first to
\* fail, with no call of a later step.
C7_RecipeSteps ==
  /\ C7_NoIdNoTitle => repAnswer.status = 400 /\ repCalls = << >>
  /\ (~C7_NoIdNoTitle /\ ~repRecipe.ok) =>
       /\ repAnswer.status = IF repRecipe.uncaught # "none" THEN 500
                             ELSE repRecipe.status
       /\ C7_CallNames \subseteq { "search", "detail" }
  /\ (repRecipe.ok /\ C7_Names.uncaught # "none") =>
       /\ repAnswer = InternalError
       /\ C7_CallNames \subseteq { "search", "detail" }
  /\ (C7_NamesExtracted /\ repNames = << >>) =>
       /\ repAnswer.status = 404
       /\ C7_CallNames \subseteq { "search", "detail" }
  /\ (C7_NamesExtracted /\ repNames # << >> /\ repMatch.isNone) =>
       /\ repAnswer.status = 404
       /\ repAnswer.recipe_ingredients = repNames
       /\ C7_CallNames \subseteq { "search", "detail" }

\* Requirement (6) and the ranking: an empty pool gives 404 with no candidate
\* lookup, and a ranking is returned exactly when nothing failed.
C7_PoolAndRanking ==
  /\ (C7_Matched /\ repProfile.ok /\ repProfile.profile # << >>
        /\ repPool = << >>) =>
       /\ repAnswer.status = 404
       /\ "candidate_profile" \notin C7_CallNames
  /\ C7_CandidateLookupRaised => repAnswer = InternalError
  /\ repAnswer.kind = "ranking" <=>
       /\ ~C7_NoIdNoTitle
       /\ C7_Matched
       /\ repProfile.ok /\ repProfile.profile # << >>
       /\ repPool # << >>
       /\ ~C7_CandidateLookupRaised

\* C7 as stated: ... (5) the matched ingredient has a non-empty flavor
\* profile, else 404 ...
C7_ChecksInOrderAsStated ==
  (repFlow = "recipe" /\ repPc = "done") =>
    /\ C7_RecipeSteps
    /\ (C7_Matched /\ ~(repProfile.ok /\ repProfile.profile # << >>)) =>
         /\ repAnswer.status = 404
         /\ C7_CallNames \cap { "pool", "candidate_profile" } = {}
    /\ C7_PoolAndRanking

\* C7: in replace_in_recipe the first requirement that fails decides the
\* answer, and no upstream call of a later step is made: (1) recipe_id or
\* title, else 400 before any call; (2) the recipe lookup, else the recipe
\* client's status; (3) a non-empty ingredient list, else 404; (4) a match,
\* else 404 carrying the ingredient list; (5) the profile lookup of the
\* matched ingredient succeeds, else the flavor client's status, and its
\* profile is non-empty, else 404; (6) a non-empty pool, else 404.  A step
\* that ends with an exception which is not a client error decides the
\* answer too: 500, with no call of a later step.  A ranking is returned
\* exactly when all hold and no candidate's lookup ended with such an
\* exception.
C7_ChecksInOrder ==
  (repFlow = "recipe" /\ repPc = "done") =>
    /\ C7_RecipeSteps
    /\ (C7_Matched /\ ~repProfile.ok) =>
         /\ repAnswer.status = IF repProfile.uncaught # "none" THEN 500
                               ELSE repProfile.status
         /\ C7_CallNames \cap { "pool", "candidate_profile" } = {}
    /\ (C7_Matched /\ repProfile.ok /\ repProfile.profile = << >>) =>
         /\ repAnswer.status = 404
         /\ C7_CallNames \cap { "pool", "candidate_profile" } = {}
    /\ C7_PoolAndRanking

\* The ingredient was matched and its profile lookup failed with a status
\* other than 404: that status is the answer, and nothing was called after.
C7_Witness ==
  /\ repFlow = "recipe"
  /\ repPc = "done"
  /\ ~repMatch.isNone
  /\ ~repProfile.ok
  /\ repProfile.status = 500
  /\ repAnswer.status = 500
  /\ repAnswer.kind = "client_error"
  /\ repCalls[Len(repCalls)].call = "molecules"

\* The recipe's own "ingredients" is a number: extracting the names raised
\* TypeError and the answer is 500 after the detail request.
C7_WitnessRaised ==
  /\ repFlow = "recipe"
  /\ repPc = "done"
  /\ repRecipe.ok
  /\ C7_Names.uncaught = "TypeError"
  /\ repAnswer = InternalError
  /\ repCalls[Len(repCalls)] = Call("detail", 200)

\* ------------------------------------------------------------------------
\* C8: which upstream failures reach the caller
\* ------------------------------------------------------------------------

\* Call i is a failed upstream call other than a candidate's profile lookup:
\* it ended with a client error, or (status 0) with an exception of the wait
\* after a 429.
C8_Failed(i) ==
  repCalls[i].call # "candidate_profile" /\ repCalls[i].status # 200

\* C8 as stated: every such failure ends the request at once with its status.
C8_FailuresPropagateAsStated ==
  repPc = "done" =>
    \A i \in 1..Len(repCalls) :
      (C8_Failed(i) /\ repCalls[i].status # 0) =>
        i = Len(repCalls) /\ repAnswer.status = repCalls[i].status

\* C8: in both flows a failed recipe request ends the request at once with
\* its status; a failed molecule query of the target does so unless its status
\* is 400 or 404, after which the pairing fallback is queried; a failed
\* fallback query ends it with its status; a failed pairing query for the
\* pool ends it with 404 "no candidates", whatever its status.  A recipe
\* request whose wait after a 429 raises ends the request at once with 500.
C8_FailuresPropagate ==
  repPc = "done" =>
    \A i \in 1..Len(repCalls) :
      C8_Failed(i) =>
        IF repCalls[i].call = "molecules" /\ repCalls[i].status \in { 400, 404 }
        THEN i < Len(repCalls) /\ repCalls[i + 1].call = "fallback"
        ELSE /\ i = Len(repCalls)
             /\ IF repCalls[i].call = "pool"
                THEN repAnswer.status = 404 /\ repAnswer.kind = "no_candidates"
                ELSE IF repCalls[i].status = 0
                THEN /\ repCalls[i].call \in { "search", "detail" }
                     /\ repAnswer = InternalError
                ELSE /\ repAnswer.status = repCalls[i].status
                     /\ repAnswer.kind \in { "client_error", "no_profile" }

\* The pairing query for the pool failed with status 500 and the caller got
\* 404.
C8_Witness ==
  /\ repPc = "done"
  /\ repCalls # << >>
  /\ repCalls[Len(repCalls)] = Call("pool", 500)
  /\ repAnswer.status = 404
  /\ repAnswer.kind = "no_candidates"

\* The title search was answered 429 with a Retry-After that time.sleep
\* rejects (ten billion seconds): the wait raised and the caller got 500.
C8_WitnessWaitRaised ==
  /\ repPc = "done"
  /\ repCalls = << Call("search", 0) >>
  /\ repRecipe.uncaught = "OverflowError"
  /\ repAnswer = InternalError

\* ------------------------------------------------------------------------
\* C11: not-found answers of the flavor data source
\* ------------------------------------------------------------------------

\* What the flavor client made of the two queries of a profile lookup.
C11_Molecules == FlavorRequest(procEnv, profMolecules)

C11_Pairings == FlavorRequest(procEnv, profPairings)

\* A query succeeded or failed with a not-found status.
C11_FoundOrNotFound(outcome) == outcome.ok \/ outcome.status \in { 400, 404 }

\* The molecule records of the lookup gave at least one token.
C11_MoleculeTokens ==
  /\ C11_Molecules.ok
  /\ MoleculeProfile(ExtractItems(C11_Molecules.payload).result) # {}

\* C11: whenever the molecule query and the pairing query each succeed or
\* fail with 400 or 404, get_flavor_profile_by_ingredient raises no error and
\* returns a profile; the pairing query is issued exactly when the molecule
\* query reports 400/404 or its records yield no token, and never when the
\* molecule records yield a token.
C11_NotFoundIsEmptyAsStated ==
  profPc = "done" =>
    /\ (/\ C11_FoundOrNotFound(C11_Molecules)
        /\ profResult.pairingQueried => C11_FoundOrNotFound(C11_Pairings))
         => profResult.ok
    /\ profResult.pairingQueried <=>
         \/ ~C11_Molecules.ok /\ C11_Molecules.status \in { 400, 404 }
         \/ C11_Molecules.ok /\ ~C11_MoleculeTokens
    /\ profResult.pairingQueried <=> profCalls = << "molecules", "pairings" >>
    /\ C11_MoleculeTokens => profCalls = << "molecules" >>

\* The same with 404 as the only not-found status of the pairing query, for
\* the answers whose JSON body is an object.
C11_PairingNotFoundIs404 ==
  (profPc = "done" /\ profResult.uncaught = "none") =>
    /\ (/\ C11_FoundOrNotFound(C11_Molecules)
        /\ profResult.pairingQueried =>
             (C11_Pairings.ok \/ C11_Pairings.status = 404))
         => profResult.ok
    /\ (profResult.pairingQueried /\ ~C11_Pairings.ok
          /\ C11_Pairings.status # 404)
         => ~profResult.ok /\ profResult.status = C11_Pairings.status

\* The molecule query reported 404, the pairing query 400, and the lookup
\* raised with status 400.
C11_PairingBadRequestRaised ==
  /\ profPc = "done"
  /\ profMolecules = HttpText(404, EnvUnset)
  /\ profPairings = HttpText(400, EnvUnset)
  /\ profResult = ProfileErr(400, TRUE)

\* ------------------------------------------------------------------------
\* C12: the ingredient being replaced is not suggested
\* ------------------------------------------------------------------------

\* A name equal to the matched recipe ingredient, ignoring case and
\* surrounding whitespace.
C12_IsMatched(name) ==
  StrLower(StrStrip(name)) = StrLower(StrStrip(repMatch.name))

\* The positions of the pool that hold some other ingredient.
C12_Others == { i \in 1..Len(repPool) : ~C12_IsMatched(repPool[i]) }

\* The candidate profile lookups made.
C12_Lookups ==
  { i \in 1..Len(repCalls) : repCalls[i].call = "candidate_profile" }

\* C12: in replace_in_recipe every candidate of the pool that equals the
\* matched recipe ingredient, ignoring case and surrounding whitespace, is
\* passed over before any profile lookup and is not ranked: lookups are made
\* for the other candidates only, and no suggested replacement names the
\* matched ingredient.
C12_MatchedIngredientSkipped ==
  (repFlow = "recipe" /\ repPc = "done" /\ repAnswer.kind = "ranking") =>
    /\ \A i \in 1..Len(repAnswer.suggested_replacements) :
         ~C12_IsMatched(repAnswer.suggested_replacements[i].ingredient)
    /\ Cardinality(C12_Lookups) = Cardinality(C12_Others)
    /\ repAnswer.candidates_evaluated <= Cardinality(C12_Others)

\* The caller's candidates hold the matched ingredient in another case, and
\* a ranking of the others was returned.
C12_Witness ==
  /\ repFlow = "recipe"
  /\ repPc = "done"
  /\ repAnswer.kind = "ranking"
  /\ repAnswer.suggested_replacements # << >>
  /\ \E i \in 1..Len(repPool) :
       C12_IsMatched(repPool[i]) /\ repPool[i] # repMatch.name

\* ------------------------------------------------------------------------
\* C13: the ranking is cut to the requested limit
\* ------------------------------------------------------------------------

\* min(limit, n), n the number of candidates that were ranked.
C13_Returned ==
  IF repPayload.limit < Len(repRanked) THEN repPayload.limit ELSE Len(repRanked)

\* C13: in both flows suggested_replacements is exactly the first
\* min(limit, n) entries of the sorted ranking, n being the number of
\* candidates that survived the ranking, and candidates_evaluated is n, the
\* count before the cut.
C13_TruncatedToLimit ==
  (repPc = "done" /\ repAnswer.kind = "ranking") =>
    /\ Len(repAnswer.suggested_replacements) = C13_Returned
    /\ \A i \in 1..C13_Returned :
         repAnswer.suggested_replacements[i] = repRanked[i]
    /\ repAnswer.candidates_evaluated = Len(repRanked)
    /\ repRanked = SortRanked(repRanked)

\* Two candidates were ranked and limit is 1: one entry is returned and
\* candidates_evaluated is 2.
C13_Witness ==
  /\ repPc = "done"
  /\ repAnswer.kind = "ranking"
  /\ repPayload.limit = 1
  /\ Len(repRanked) = 2
  /\ repAnswer.suggested_replacements = << repRanked[1] >>
  /\ repAnswer.candidates_evaluated = 2

\* ------------------------------------------------------------------------
\* C14: the ranges of calculate_similarity
\* ------------------------------------------------------------------------

\* A profile after trimming, lower-casing and dropping the empty entries.
C14_Normalized(profile) ==
  { StrLower(StrStrip(profile[i])) : i \in 1..Len(profile) } \ { << >> }

C14_A == C14_Normalized(scoreProfile1)

C14_B == C14_Normalized(scoreProfile2)

\* terms lists the texts of S in ascending order, each once.
C14_IsSortedListOf(terms, S) ==
  /\ Len(terms) = Cardinality(S)
  /\ SeqRange(terms) = S
  /\ \A i \in 1..(Len(terms) - 1) : StrLess(terms[i], terms[i + 1])

\* C14: for all profiles, with A and B their normalized sets,
\* calculate_similarity gives jaccard and dice between 0 and 1 (0 and 10000
\* in 1/10000), overlap_count = |A \cap B| <= min(|A|, |B|) and overlap_terms
\* the sorted elements of A \cap B; when A or B is empty it gives
\* overlap_count 0, jaccard 0.0, dice 0.0 and overlap_terms [].
C14_ScoreRanges ==
  scorePc = "done" =>
    /\ scoreResult.jaccard \in 0..10000
    /\ scoreResult.dice \in 0..10000
    /\ scoreResult.overlap_count = Cardinality(C14_A \cap C14_B)
    /\ scoreResult.overlap_count <= Cardinality(C14_A)
    /\ scoreResult.overlap_count <= Cardinality(C14_B)
    /\ C14_IsSortedListOf(scoreResult.overlap_terms, C14_A \cap C14_B)
    /\ (C14_A = {} \/ C14_B = {}) =>
         scoreResult = [ overlap_count |-> 0, jaccard |-> 0, dice |-> 0,
                         overlap_terms |-> << >> ]

\* ["Sweet", "sweet"] against ["sweet", " bitter "]: one term in common out
\* of two, jaccard 0.5, dice 0.6667.
C14_Witness ==
  /\ scorePc = "done"
  /\ scoreProfile1 = << TxtSweetCap, TxtSweet >>
  /\ scoreProfile2 = << TxtSweet, TxtBitterPadded >>
  /\ scoreResult = [ overlap_count |-> 1, jaccard |-> 5000, dice |-> 6667,
                     overlap_terms |-> << TxtSweet >> ]

\* ------------------------------------------------------------------------
\* C15: calculate_similarity is symmetric
\* ------------------------------------------------------------------------

\* C15: calculate_similarity(A, B) equals calculate_similarity(B, A) in
\* every field: overlap_count, jaccard, dice and overlap_terms.
C15_Symmetric ==
  scorePc = "done" =>
    \A swapped \in { CalculateSimilarity(scoreProfile2, scoreProfile1) } :
      /\ scoreResult.overlap_count = swapped.overlap_count
      /\ scoreResult.jaccard = swapped.jaccard
      /\ scoreResult.dice = swapped.dice
      /\ scoreResult.overlap_terms = swapped.overlap_terms

\* Profiles of different sizes with a term in common: ["Sweet"] against
\* ["sweet", "woody"] gives dice 0.6667 whichever comes first.
C15_Witness ==
  /\ scorePc = "done"
  /\ scoreProfile1 = << TxtSweetCap >>
  /\ scoreProfile2 = << TxtSweet, TxtWoody >>
  /\ scoreResult.dice = 6667
  /\ CalculateSimilarity(scoreProfile2, scoreProfile1).dice = 6667

\* ------------------------------------------------------------------------
\* C16: requests without credentials
\* ------------------------------------------------------------------------

\* None of the token variables of the environment is set to a non-blank
\* value.
C16_NoTokenConfigured ==
  /\ ~IsNonBlank(procEnv.RECIPEDB_AUTH_TOKEN)
  /\ ~IsNonBlank(procEnv.FLAVORDB_AUTH_TOKEN)
  /\ ~IsNonBlank(procEnv.FOODOSCOPE_API_KEY)
  /\ ~IsNonBlank(procEnv.FLAVORDB_API_KEY)
  /\ ~IsNonBlank(procEnv.AUTH_TOKEN)

\* C16: when none of the token environment variables is set to a non-blank
\* value, a request through either upstream client fails with the
\* missing-token error (status 401) and no upstream HTTP call is issued.
C16_MissingTokenFailsAsStated ==
  (reqPc = "done" /\ C16_NoTokenConfigured) =>
    /\ reqEnd = Returned(Err(401))
    /\ reqLog = << >>

\* The same for the recipe client alone.
C16_RecipeClientNeedsToken ==
  (reqPc = "done" /\ reqClient = "recipe" /\ C16_NoTokenConfigured) =>
    /\ reqEnd = Returned(Err(401))
    /\ reqLog = << >>

\* With no token configured the flavor client issued its GET, with the token
\* written in the code, and returned the payload.
C16_BakedInTokenUsed ==
  /\ reqPc = "done"
  /\ reqClient = "flavor"
  /\ C16_NoTokenConfigured
  /\ FlavorAuthToken(procEnv) = DEFAULT_AUTH_TOKEN
  /\ Len(reqLog) = 1
  /\ reqLog[1].ev = "get"
  /\ reqEnd.result.ok

\* ------------------------------------------------------------------------
\* C17: where the candidate pool of replace_in_recipe comes from
\* ------------------------------------------------------------------------

\* The caller's candidates, trimmed, the blank ones left out, in the
\* caller's order.
C17_Explicit ==
  IF ~repPayload.candidates.set THEN << >>
  ELSE LET kept == SelectSeq(repPayload.candidates.list,
                             LAMBDA x : StrStrip(x) # << >>)
       IN  [ i \in 1..Len(kept) |-> StrStrip(kept[i]) ]

\* The pairing queries made for the pool.
C17_PoolQueries == { i \in 1..Len(repCalls) : repCalls[i].call = "pool" }

\* The request got as far as the pool: the target's profile is not empty and
\* the pool has been derived.
C17_PoolDerived ==
  /\ repFlow = "recipe"
  /\ repPc \in { "rank_molecules", "rank_pairings", "done" }
  /\ ~repMatch.isNone
  /\ repProfile.ok
  /\ repProfile.profile # << >>

\* C17: in replace_in_recipe, when the caller gives candidates of which at
\* least one is non-blank after trimming, the pool is exactly those trimmed
\* non-blank candidates in the caller's order and no pairing query is made
\* for the pool; the pairing query for the matched ingredient is made only
\* when no candidates are given or all are blank, and then the pool is what
\* the extractor gives for its answer (nothing when the query failed).
C17_PoolSelection ==
  /\ (repFlow = "recipe" /\ C17_PoolQueries # {}) => C17_Explicit = << >>
  /\ C17_PoolDerived =>
       IF C17_Explicit # << >>
       THEN repPool = C17_Explicit /\ C17_PoolQueries = {}
       ELSE /\ Cardinality(C17_PoolQueries) = 1
            /\ repPool = IF repPairings.ok
                         THEN ExtractPairingCandidates(repPairings.payload,
                                                       repMatch.name)
                         ELSE << >>

\* The caller gave [" garlic ", "", " Ginger ", "galangal"]: the pool is
\* ["garlic", "Ginger", "galangal"] and no pairing query was made.
C17_Witness ==
  /\ C17_PoolDerived
  /\ repPc = "done"
  /\ Len(repPayload.candidates.list) = 4
  /\ Len(repPool) = 3
  /\ repPool = C17_Explicit
  /\ C17_PoolQueries = {}

\* The caller gave only a blank candidate: the pairing query was made and
\* the pool is the extractor's output.
C17_WitnessExtracted ==
  /\ C17_PoolDerived
  /\ repPayload.candidates = CandidateList(<< TxtBlank >>)
  /\ repPairings.ok
  /\ repPool # << >>
  /\ repPool = ExtractPairingCandidates(repPairings.payload, repMatch.name)

\* ------------------------------------------------------------------------
\* C18: names with an empty normal form
\* ------------------------------------------------------------------------

C18_TargetNorm == NormalizeIngredientName(matchTarget)

\* C18: for every target whose normal form is not empty and every list, a
\* name returned by the matcher has a non-empty normal form, whichever tier
\* returned it.
C18_NoEmptyNameMatchedAsStated ==
  (matchPc = "done" /\ C18_TargetNorm # << >> /\ ~matchResult.isNone) =>
    NormalizeIngredientName(matchResult.name) # << >>

\* The same for the names returned by the exact tier and the blended tier.
C18_ExactAndBlendedTiers ==
  (/\ matchPc = "done"
   /\ C18_TargetNorm # << >>
   /\ ~matchResult.isNone
   /\ \/ ~ExactTier(C18_TargetNorm, matchList).isNone
      \/ SubstringTier(C18_TargetNorm, matchList).isNone) =>
    NormalizeIngredientName(matchResult.name) # << >>

\* "xyz123" against a list that starts with "---": the substring tier
\* returns "---" with confidence 0.9.
C18_EmptyNameMatched ==
  /\ matchPc = "done"
  /\ matchTarget = TxtXyz123
  /\ matchList # << >>
  /\ matchList[1] = TxtDashes3
  /\ matchResult = Matched(TxtDashes3, CONF_SUBSTRING)
====
